---- MODULE Spec2Model ----
(***************************************************************************)
(* Model of the OpenAPI transformation engine of algokit-oas-generator.    *)
(*                                                                         *)
(* The document is a JSON tree.  A node is a one-field record whose field  *)
(* name is its kind:                                                       *)
(*   [obj |-> <<[k |-> key, v |-> node], ...>>]  a map, in insertion order *)
(*   [arr |-> <<node, ...>>]                     a sequence                *)
(*   [str |-> "text"], [bool |-> TRUE], [num |-> 3]   scalars              *)
(*   [undef |-> TRUE]                            the result of a failed    *)
(*                                               lookup (never stored)     *)
(* The current processor is src/config.ts (lines 860-2011); src/main.ts    *)
(* holds the earlier single-file processor.  Where the two differ the      *)
(* earlier one is modelled under the same name with the suffix Main, and   *)
(* the variable impl says which processor a behaviour runs.                *)
(***************************************************************************)
EXTENDS Integers, Sequences, FiniteSets, TLC

VARIABLES
    doc,      \* the specification document being transformed
    impl,     \* "config" (src/config.ts) or "main" (src/main.ts)
    pre,      \* the document before the last operation
    last,     \* the last operation: its name, arguments and returned count
    steps,    \* number of operations applied so far
    cfg,      \* the ProcessingConfig of the processor
    pc,       \* the position of process(): the step it takes next
    run,      \* the number of the current run of process()
    source,   \* the document the current run fetched
    out,      \* the documents saved so far, one per completed run
    tasks,    \* the runs of process() started together: the one that is
              \* executing and the suspended ones with their local state
    files,    \* the files written so far, by path
    shared    \* the custom schemas of the configuration whose object stands
              \* in the document, by their position in customSchemas

vars == <<doc, impl, pre, last, steps, cfg, pc, run, source, out, tasks, files, shared>>

----------------------------------------------------------------------------
(* JSON values *)

Str(s) == [str |-> s]

Bool(b) == [bool |-> b]

Num(n) == [num |-> n]

Obj(e) == [obj |-> e]

Arr(e) == [arr |-> e]

KV(k, v) == [k |-> k, v |-> v]

Undef == [undef |-> TRUE]

EmptyObj == Obj(<<>>)

IsObj(n) == DOMAIN n = {"obj"}

IsArr(n) == DOMAIN n = {"arr"}

IsStr(n) == DOMAIN n = {"str"}

IsUndef(n) == DOMAIN n = {"undef"}

\* typeof n === "object" && n  (maps and arrays)
IsObject(n) == DOMAIN n \in {{"obj"}, {"arr"}}

\* JavaScript truthiness
Truthy(n) ==
    CASE DOMAIN n \in {{"obj"}, {"arr"}} -> TRUE
      [] DOMAIN n = {"str"} -> n.str # ""
      [] DOMAIN n = {"bool"} -> n.bool
      [] DOMAIN n = {"num"} -> n.num # 0
      [] OTHER -> FALSE

\* obj.hasOwnProperty(k) on a map
Has(o, k) == IF DOMAIN o = {"obj"} THEN \E i \in 1..Len(o.obj) : o.obj[i].k = k ELSE FALSE

IdxOf(o, k) == CHOOSE i \in 1..Len(o.obj) : o.obj[i].k = k

\* o[k]: undefined when o is not a map or has no such key
Get(o, k) ==
    IF DOMAIN o # {"obj"} THEN Undef
    ELSE IF \E i \in 1..Len(o.obj) : o.obj[i].k = k THEN o.obj[IdxOf(o, k)].v ELSE Undef

\* o[k] = v: an existing key keeps its place, a new key is appended
Set(o, k, v) ==
    IF Has(o, k) THEN [o EXCEPT !.obj[IdxOf(o, k)].v = v]
    ELSE [obj |-> Append(o.obj, [k |-> k, v |-> v])]

\* delete o[k]
Del(o, k) ==
    IF Has(o, k)
    THEN LET i == IdxOf(o, k)
         IN Obj(SubSeq(o.obj, 1, i - 1) \o SubSeq(o.obj, i + 1, Len(o.obj)))
    ELSE o

\* Object.keys(o), as a sequence
Keys(o) == [i \in 1..Len(o.obj) |-> o.obj[i].k]

KeySet(o) == {o.obj[i].k : i \in 1..Len(o.obj)}

\* n.a.b.c with optional chaining
RECURSIVE GetIn(_, _)
GetIn(n, path) ==
    CASE path = <<>> -> n
      [] DOMAIN n = {"obj"} -> GetIn(Get(n, Head(path)), Tail(path))
      [] OTHER -> Undef

\* n.a.b.c = v, the maps on the way existing
RECURSIVE SetIn(_, _, _)
SetIn(n, path, v) ==
    IF path = <<>> THEN v
    ELSE IF Has(n, Head(path))
         THEN [n EXCEPT !.obj[IdxOf(n, Head(path))].v = SetIn(@, Tail(path), v)]
         ELSE [obj |-> Append(n.obj, [k |-> Head(path), v |-> SetIn(Undef, Tail(path), v)])]

\* delete n.a.b.c
RECURSIVE DelIn(_, _)
DelIn(n, path) ==
    IF Len(path) = 1 THEN Del(n, Head(path))
    ELSE IF Has(n, Head(path))
         THEN [n EXCEPT !.obj[IdxOf(n, Head(path))].v = DelIn(@, Tail(path))]
         ELSE [obj |-> Append(n.obj, [k |-> Head(path), v |-> DelIn(Undef, Tail(path))])]

\* the i-th child of a map or an array, and its replacement
Child(n, i) == IF IsArr(n) THEN n.arr[i] ELSE n.obj[i].v

NumChildren(n) == IF IsArr(n) THEN Len(n.arr) ELSE Len(n.obj)

ChildKey(n, i) == IF IsArr(n) THEN ToString(i - 1) ELSE n.obj[i].k

SetChild(n, i, c) ==
    IF IsArr(n) THEN [n EXCEPT !.arr[i] = c] ELSE [n EXCEPT !.obj[i].v = c]

\* arrays of strings: includes, indexOf, filter, push
StrList(n) == [i \in 1..Len(n.arr) |-> n.arr[i]]

Includes(a, s) == IsArr(a) /\ \E i \in 1..Len(a.arr) : a.arr[i] = Str(s)

Without(a, s) == Arr(SelectSeq(a.arr, LAMBDA x : x # Str(s)))

Push(a, s) == Arr(Append(a.arr, Str(s)))

----------------------------------------------------------------------------
(* Strings *)

StartsWith(s, p) == Len(s) >= Len(p) /\ SubSeq(s, 1, Len(p)) = p

SchemaRefPrefix == "#/components/schemas/"

\* typeof obj.$ref === "string" && obj.$ref.startsWith("#/components/schemas/")
IsSchemaRef(obj) ==
    /\ IsStr(Get(obj, "$ref"))
    /\ StartsWith(Get(obj, "$ref").str, SchemaRefPrefix)

\* obj.$ref.substring("#/components/schemas/".length)
RefName(obj) ==
    LET s == Get(obj, "$ref").str
    IN SubSeq(s, Len(SchemaRefPrefix) + 1, Len(s))

SchemaRef(name) == Obj(<<KV("$ref", Str(SchemaRefPrefix \o name))>>)

\* s.substring(n) for n >= 0
Substring(s, n) == IF n >= Len(s) THEN "" ELSE SubSeq(s, n + 1, Len(s))

\* the positions at or after i where p occurs in s
Occurrences(s, p, i) ==
    {j \in i..Len(s) : j + Len(p) - 1 <= Len(s) /\ SubSeq(s, j, j + Len(p) - 1) = p}

\* position of the first occurrence of p in s at or after i, 0 when there is none
IndexFrom(s, p, i) ==
    IF Occurrences(s, p, i) = {} THEN 0
    ELSE CHOOSE j \in Occurrences(s, p, i) : \A k \in Occurrences(s, p, i) : j <= k

\* s.replace(new RegExp(from, "g"), to), for names without regex
\* metacharacters: the occurrences of from, left to right, none overlapping
RECURSIVE ReplaceAll(_, _, _)
ReplaceAll(s, from, to) ==
    IF from = "" \/ IndexFrom(s, from, 1) = 0 THEN s
    ELSE SubSeq(s, 1, IndexFrom(s, from, 1) - 1) \o to
         \o ReplaceAll(Substring(s, IndexFrom(s, from, 1) + Len(from) - 1), from, to)

FriendlyMark == "\nfriendly:"

\* s.replace(/\nfriendly:.+$/, ""): the first "\nfriendly:" that is followed, up
\* to the end of the string, by at least one character and no line break
RECURSIVE StripFriendlyFrom(_, _)
StripFriendlyFrom(s, i) ==
    LET at == IndexFrom(s, FriendlyMark, i)
        rest == Substring(s, at + Len(FriendlyMark) - 1)
    IN IF at = 0 THEN s
       ELSE IF rest # "" /\ IndexFrom(rest, "\n", 1) = 0
            THEN SubSeq(s, 1, at - 1)
            ELSE StripFriendlyFrom(s, at + 1)

StripFriendly(s) == StripFriendlyFrom(s, 1)

\* s.endsWith(p)
EndsWith(s, p) == Len(s) >= Len(p) /\ SubSeq(s, Len(s) - Len(p) + 1, Len(s)) = p

\* parts.join(sep)
RECURSIVE Join(_, _)
Join(parts, sep) ==
    CASE Len(parts) = 0 -> ""
      [] Len(parts) = 1 -> parts[1]
      [] OTHER -> Join(SubSeq(parts, 1, Len(parts) \div 2), sep) \o sep
                  \o Join(SubSeq(parts, Len(parts) \div 2 + 1, Len(parts)), sep)

\* s.split(sep), for a separator of one character
RECURSIVE Split(_, _)
Split(s, sep) ==
    LET at == IndexFrom(s, sep, 1)
    IN IF at = 0 THEN <<s>>
       ELSE <<SubSeq(s, 1, at - 1)>> \o Split(SubSeq(s, at + 1, Len(s)), sep)

\* path.includes(part)
PathIncludes(path, part) == \E i \in 1..Len(path) : path[i] = part

----------------------------------------------------------------------------
(* Fixed tables of src/config.ts, the entries the documents below can meet *)

MISSING_DESCRIPTIONS ==
    << KV("components.responses.NodeStatusResponse.description",
          "Returns the current status of the node"),
       KV("paths.'/v2/status'(get).responses.200.description",
          "Returns the current node status including sync status, version, and latest round") >>

\* an absent schemaName is ""
FIELD_RENAMES ==
    << [from |-> "asset-index", to |-> "asset_id", schemaName |-> ""],
       [from |-> "index", to |-> "id", schemaName |-> "Asset"] >>

\* an absent excludedModels is <<>>
BIGINT_FIELDS ==
    << [fieldName |-> "round", excludedModels |-> <<>>],
       [fieldName |-> "id", excludedModels |-> <<>>],
       [fieldName |-> "index", excludedModels |-> <<"LightBlockHeaderProof">>] >>

FIXED_LENGTH_BYTE_FIELDS ==
    << [fieldName |-> "genesis-hash", byteLength |-> 32, schemaName |-> ""],
       [fieldName |-> "commitment", byteLength |-> 64, schemaName |-> "StateProofVerifier"] >>

UINT64_TRANSFORMS ==
    << [sourceProperty |-> "x-algorand-format", sourceValue |-> "uint64",
        targetProperty |-> "x-algokit-bigint", targetValue |-> Bool(TRUE),
        removeSource |-> TRUE],
       [sourceProperty |-> "format", sourceValue |-> "uint64",
        targetProperty |-> "x-algokit-bigint", targetValue |-> Bool(TRUE),
        removeSource |-> FALSE] >>

HTTP_METHODS == <<"get", "post", "put", "delete", "patch", "head", "options", "trace">>

\* the first element of q satisfying the test at index i, as a sequence of
\* at most one element (Array.prototype.find)
FirstIndex(S) == IF S = {} THEN 0 ELSE CHOOSE i \in S : \A j \in S : i <= j

\* fixFieldNaming: findRename
findRename(propName, schemaName) ==
    FirstIndex({i \in 1..Len(FIELD_RENAMES) :
                   /\ FIELD_RENAMES[i].from = propName
                   /\ (FIELD_RENAMES[i].schemaName = ""
                       \/ FIELD_RENAMES[i].schemaName = schemaName)})

\* fixBigInt: shouldMark
shouldMark(fieldName, schemaName) ==
    \E i \in 1..Len(BIGINT_FIELDS) :
        /\ BIGINT_FIELDS[i].fieldName = fieldName
        /\ (\/ BIGINT_FIELDS[i].excludedModels = <<>>
            \/ schemaName = ""
            \/ ~PathIncludes(BIGINT_FIELDS[i].excludedModels, schemaName))

\* fixFixedLengthByteFields: findByteLength
findByteLength(fields, fieldName, schemaName) ==
    FirstIndex({i \in 1..Len(fields) :
                   /\ fields[i].fieldName = fieldName
                   /\ (fields[i].schemaName = "" \/ fields[i].schemaName = schemaName)})

----------------------------------------------------------------------------
(* Visitors of deepTraverse.  A visitor is a record [name |-> ..., ...] with *)
(* the values its closure captures; applied to a node it returns the node   *)
(* as it leaves it, the accumulator (the closure's counter) and whether it  *)
(* returned "skip".                                                         *)

VisitResult(n, acc) == [n |-> n, acc |-> acc, skip |-> FALSE]

\* what a plain object inherits from Object.prototype, among other names, in
\* the strings a template literal makes of the functions
ObjectPrototype ==
    [constructor |-> "function Object() { [native code] }",
     toString |-> "function toString() { [native code] }",
     valueOf |-> "function valueOf() { [native code] }",
     hasOwnProperty |-> "function hasOwnProperty() { [native code] }"]

\* m[k] of a plain object m, as a string: its own property or the inherited
\* one, and "" when it has neither (undefined)
PropertyOf(m, k) ==
    CASE k \in DOMAIN m -> m[k]
      [] k \in DOMAIN ObjectPrototype -> ObjectPrototype[k]
      [] OTHER -> ""

\* if (oldToNew[refName])
InMap(m, k) == PropertyOf(m, k) # ""

\* a rewriter that counts the pointer and leaves it as it was
updateAllRefsVisitorStale(oldToNew, obj, acc) ==
    IF IsSchemaRef(obj) /\ InMap(oldToNew, RefName(obj))
    THEN VisitResult(obj, acc + 1)
    ELSE VisitResult(obj, acc)

\* src/config.ts updateAllRefs, the visitor
updateAllRefsVisitor(oldToNew, obj, acc) ==
    IF IsSchemaRef(obj) /\ InMap(oldToNew, RefName(obj))
    THEN VisitResult(Set(obj, "$ref",
                         Str(SchemaRefPrefix \o PropertyOf(oldToNew, RefName(obj)))),
                     acc + 1)
    ELSE VisitResult(obj, acc)

\* src/config.ts removeEmptySchemas, first traversal: drop the $ref
dropEmptyRefVisitor(emptySchemas, obj, acc) ==
    IF IsSchemaRef(obj) /\ RefName(obj) \in emptySchemas
    THEN VisitResult(Del(obj, "$ref"), acc)
    ELSE VisitResult(obj, acc)

\* one media type of a content table: deleted when its schema is {}
RECURSIVE cleanContentEntries(_, _, _)
cleanContentEntries(content, entries, i) ==
    IF i > Len(entries) THEN content
    ELSE LET mediaTypeObj == entries[i].v
             schema == Get(mediaTypeObj, "schema")
             emptied == /\ IsObject(mediaTypeObj)
                        /\ IsObj(schema)
                        /\ ~Truthy(Get(schema, "$ref"))
                        /\ Len(schema.obj) = 0
         IN cleanContentEntries(IF emptied THEN Del(content, entries[i].k) ELSE content,
                                entries, i + 1)

\* src/config.ts removeEmptySchemas, second traversal: responses' content
cleanContentVisitor(obj, path, acc) ==
    LET content == Get(obj, "content")
    IN IF IsObj(content) /\ (\E i \in 1..Len(path) : path[i] = "responses")
       THEN VisitResult(Set(obj, "content", cleanContentEntries(content, content.obj, 1)), acc)
       ELSE VisitResult(obj, acc)

\* the filter of the allOf members
keepAllOfItem(emptySchemas, item) ==
    IF IsStr(Get(item, "$ref")) /\ Truthy(Get(item, "$ref"))
    THEN Substring(Get(item, "$ref").str, Len(SchemaRefPrefix)) \notin emptySchemas
    ELSE TRUE

\* Object.assign(obj, single)
RECURSIVE ObjectAssign(_, _, _)
ObjectAssign(obj, single, i) ==
    IF ~IsObj(single) \/ i > Len(single.obj) THEN obj
    ELSE ObjectAssign(Set(obj, single.obj[i].k, single.obj[i].v), single, i + 1)

\* src/config.ts removeEmptySchemas, third traversal: allOf lists
allOfVisitor(emptySchemas, obj, acc) ==
    LET allOf == Get(obj, "allOf")
    IN IF ~IsArr(allOf) THEN VisitResult(obj, acc)
       ELSE LET kept == SelectSeq(allOf.arr, LAMBDA item : keepAllOfItem(emptySchemas, item))
            IN IF Len(kept) = 0 THEN VisitResult(Del(obj, "allOf"), acc)
               ELSE IF Len(kept) = 1 /\ ~Truthy(Get(obj, "properties"))
                    THEN VisitResult(ObjectAssign(Del(obj, "allOf"), kept[1], 1), acc)
                    ELSE VisitResult(Set(obj, "allOf", Arr(kept)), acc)

\* fixFieldNaming, the body of both callbacks: one property
fieldNamingOf(schemaName, propName, propDef) ==
    LET i == findRename(propName, schemaName)
    IN IF i # 0
       THEN [n |-> IF IsObj(propDef)
                   THEN Set(propDef, "x-algokit-field-rename", Str(FIELD_RENAMES[i].to))
                   ELSE propDef,
             count |-> 1]
       ELSE [n |-> propDef, count |-> 0]

\* fixTealValueBytes, the callback
tealValueBytesOf(schemaName, propName, propDef) ==
    IF schemaName = "TealValue" /\ propName = "bytes"
    THEN [n |-> IF IsObj(propDef) THEN Set(propDef, "x-algokit-bytes-base64", Bool(TRUE))
                ELSE propDef,
          count |-> 1]
    ELSE [n |-> propDef, count |-> 0]

\* fixBigInt, the body of the three callbacks: one property or parameter schema
bigIntOf(schemaName, propName, propDef) ==
    IF /\ Get(propDef, "type") = Str("integer")
       /\ ~Truthy(Get(propDef, "x-algokit-bigint"))
       /\ shouldMark(propName, schemaName)
    THEN [n |-> Set(propDef, "x-algokit-bigint", Bool(TRUE)), count |-> 1]
    ELSE [n |-> propDef, count |-> 0]

\* fixFixedLengthByteFields, the body of both callbacks
byteLengthOf(fields, schemaName, propName, propDef) ==
    LET i == findByteLength(fields, propName, schemaName)
    IN IF /\ Get(propDef, "type") = Str("string")
          /\ Get(propDef, "format") = Str("byte")
          /\ ~Truthy(Get(propDef, "x-algokit-byte-length"))
          /\ i # 0
       THEN [n |-> Set(propDef, "x-algokit-byte-length", Num(fields[i].byteLength)),
             count |-> 1]
       ELSE [n |-> propDef, count |-> 0]

\* the callbacks given to forEachSchemaProperty, by name
PropCallback(cb, schemaName, propName, propDef) ==
    CASE cb.name = "fixFieldNaming" -> fieldNamingOf(schemaName, propName, propDef)
      [] cb.name = "fixTealValueBytes" -> tealValueBytesOf(schemaName, propName, propDef)
      [] cb.name = "fixBigInt" -> bigIntOf(schemaName, propName, propDef)
      [] cb.name = "fixFixedLengthByteFields" ->
             byteLengthOf(cb.fields, schemaName, propName, propDef)

\* path.length >= 2 && path[path.length - 1] === "properties" && path.includes("responses")
IsInlineResponseProperties(path) ==
    Len(path) >= 2 /\ path[Len(path)] = "properties" /\ PathIncludes(path, "responses")

\* for (const [propName, propDef] of Object.entries(obj)) of an inline map
RECURSIVE inlineEntries(_, _, _, _)
inlineEntries(cb, obj, i, acc) ==
    IF i > NumChildren(obj) THEN VisitResult(obj, acc)
    ELSE IF ~IsObject(Child(obj, i)) THEN inlineEntries(cb, obj, i + 1, acc)
         ELSE LET r == PropCallback(cb, "", ChildKey(obj, i), Child(obj, i))
              IN inlineEntries(cb, SetChild(obj, i, r.n), i + 1, acc + r.count)

\* the visitor of the inline response schemas of fixFieldNaming, fixBigInt
\* and fixFixedLengthByteFields
inlineVisitor(cb, obj, path, acc) ==
    IF IsInlineResponseProperties(path) THEN inlineEntries(cb, obj, 1, acc)
    ELSE VisitResult(obj, acc)

\* the key of a transform's counter
CountKey(t) == t.sourceProperty \o ":" \o t.sourceValue

\* transformVendorExtensions, the visitor: for (const t of transforms)
RECURSIVE vendorExtensionVisitor(_, _, _, _)
vendorExtensionVisitor(transforms, obj, i, counts) ==
    IF i > Len(transforms) THEN VisitResult(obj, counts)
    ELSE LET t == transforms[i]
         IN IF Get(obj, t.sourceProperty) = Str(t.sourceValue)
            THEN LET set == Set(obj, t.targetProperty, t.targetValue)
                     moved == IF t.removeSource THEN Del(set, t.sourceProperty) ELSE set
                 IN vendorExtensionVisitor(transforms, moved, i + 1,
                        [counts EXCEPT ![CountKey(t)] = @ + 1])
            ELSE vendorExtensionVisitor(transforms, obj, i + 1, counts)

\* linkSchemaToProperties, the visitor: the entries of obj.properties
RECURSIVE linkEntries(_, _, _, _, _)
linkEntries(customSchema, properties, entries, i, acc) ==
    IF i > Len(entries) THEN [n |-> properties, acc |-> acc]
    ELSE IF /\ PathIncludes(customSchema.linkToProperties, entries[i].k)
            /\ IsObject(entries[i].v)
            /\ ~Truthy(Get(entries[i].v, "$ref"))
         THEN linkEntries(customSchema,
                          Set(properties, entries[i].k, SchemaRef(customSchema.name)),
                          entries, i + 1, acc + 1)
         ELSE linkEntries(customSchema, properties, entries, i + 1, acc)

linkVisitor(customSchema, obj, acc) ==
    LET properties == Get(obj, "properties")
    IN IF IsObj(properties)
       THEN LET r == linkEntries(customSchema, properties, properties.obj, 1, acc)
            IN VisitResult(Set(obj, "properties", r.n), r.acc)
       ELSE VisitResult(obj, acc)

\* a TraverseVisitor that changes nothing, records what it is called with and
\* returns "skip" for the nodes held under the keys of skip
logVisitor(skip, obj, path, parent, key, acc) ==
    [n |-> obj,
     acc |-> Append(acc, [obj |-> obj, path |-> path, parent |-> parent, key |-> key]),
     skip |-> key \in skip]

Visitor(vis, obj, path, parent, key, acc) ==
    CASE vis.name = "log" -> logVisitor(vis.skip, obj, path, parent, key, acc)
      [] vis.name = "updateAllRefs" -> updateAllRefsVisitor(vis.oldToNew, obj, acc)
      [] vis.name = "dropEmptyRef" -> dropEmptyRefVisitor(vis.emptySchemas, obj, acc)
      [] vis.name = "cleanContent" -> cleanContentVisitor(obj, path, acc)
      [] vis.name = "allOf" -> allOfVisitor(vis.emptySchemas, obj, acc)
      [] vis.name = "inline" -> inlineVisitor(vis.cb, obj, path, acc)
      [] vis.name = "vendorExtensions" -> vendorExtensionVisitor(vis.transforms, obj, 1, acc)
      [] vis.name = "link" -> linkVisitor(vis.customSchema, obj, acc)

----------------------------------------------------------------------------
(* Traversal utilities *)

\* The accumulator of a traversal is a counter the visitor's closure adds
\* to: a number, for transformVendorExtensions a table of numbers, for the
\* recording visitor the list of its calls.  A visitor changes the node it
\* is given and nothing else, so the model traverses each child by itself,
\* counting from zero, and adds the counts in the order of the calls.
ZeroAcc(vis) ==
    CASE vis.name = "vendorExtensions" ->
           [k \in {CountKey(vis.transforms[i]) : i \in 1..Len(vis.transforms)} |-> 0]
      [] vis.name = "log" -> <<>>
      [] OTHER -> 0

RECURSIVE AddTables(_, _, _)
AddTables(a, b, keys) ==
    IF keys = {} THEN a
    ELSE LET k == CHOOSE k \in keys : TRUE
         IN AddTables([a EXCEPT ![k] = @ + b[k]], b, keys \ {k})

AddAcc(vis, a, b) ==
    CASE vis.name = "vendorExtensions" -> AddTables(a, b, DOMAIN a)
      [] vis.name = "log" -> a \o b
      [] OTHER -> a + b

\* acc and the accumulators of the results from the i-th on, added
RECURSIVE SumAcc(_, _, _, _)
SumAcc(vis, acc, results, i) ==
    IF i > Len(results) THEN acc
    ELSE SumAcc(vis, AddAcc(vis, acc, results[i].acc), results, i + 1)

\* the sum of a tuple of numbers
RECURSIVE SumSeq(_)
SumSeq(q) == IF q = <<>> THEN 0 ELSE Head(q) + SumSeq(Tail(q))

\* the map or array obj with its i-th child replaced by results[i].n
WithChildren(obj, results) ==
    IF IsArr(obj) THEN Arr([i \in 1..Len(results) |-> results[i].n] \o <<>>)
    ELSE Obj([i \in 1..Len(results) |-> KV(obj.obj[i].k, results[i].n)] \o <<>>)

\* the keys of the documents that are canonical numeric strings (integer
\* indices), with their numbers
IntegerIndex == [k \in {"200", "404"} |-> IF k = "200" THEN 200 ELSE 404]

IsIntegerIndex(k) == k \in DOMAIN IntegerIndex

\* positions of a map in ascending order of the integer indices of their keys
RECURSIVE Ascending(_, _)
Ascending(o, positions) ==
    IF positions = {} THEN <<>>
    ELSE LET p == CHOOSE p \in positions :
                      \A q \in positions :
                          IntegerIndex[o.obj[p].k] <= IntegerIndex[o.obj[q].k]
         IN <<p>> \o Ascending(o, positions \ {p})

\* an enumeration of the own keys in the order they were created
EntryOrderCreated(o) == [i \in 1..Len(o.obj) |-> i]

\* Object.entries(obj): the positions of the entries of a map in the order
\* of the enumeration of its own keys, integer indices first in ascending
\* order, then the other keys in the order they were created
EntryOrder(o) ==
    Ascending(o, {i \in 1..Len(o.obj) : IsIntegerIndex(o.obj[i].k)})
    \o SelectSeq([i \in 1..Len(o.obj) |-> i], LAMBDA i : ~IsIntegerIndex(o.obj[i].k))

\* the results of the children of n in the order of the calls: obj.forEach
\* by index, Object.entries by enumeration
InCallOrder(n, results) ==
    IF IsArr(n) THEN results
    ELSE [i \in 1..Len(results) |-> results[EntryOrder(n)[i]]]

\* the key a child is traversed with: the index i of forEach, the key k of
\* Object.entries
TraversalKey(n, i) == IF IsArr(n) THEN Num(i - 1) ELSE Str(n.obj[i].k)

RECURSIVE deepTraverse(_, _, _, _, _)

\* a descent that does not look at what the visitor returned
traverseChildrenAll(r, vis, path) ==
    LET results == [i \in 1..NumChildren(r.n) |->
                       deepTraverse(Child(r.n, i), vis, Append(path, ChildKey(r.n, i)),
                                    r.n, TraversalKey(r.n, i))] \o <<>>
    IN [n |-> r.n, acc |-> SumAcc(vis, r.acc, InCallOrder(r.n, results), 1)]

\* deepTraverse after the visitor returned r: results are those of the
\* children (obj.forEach / for (const [k, v] of Object.entries(obj))), as a
\* tuple so that each child is traversed once
traverseChildren(r, vis, path) ==
    LET results == [i \in 1..NumChildren(r.n) |->
                       deepTraverse(Child(r.n, i), vis, Append(path, ChildKey(r.n, i)),
                                    r.n, TraversalKey(r.n, i))] \o <<>>
    IN CASE r.skip \/ results = <<>> -> [n |-> r.n, acc |-> r.acc]
         [] OTHER -> [n |-> WithChildren(r.n, results),
                      acc |-> SumAcc(vis, r.acc, InCallOrder(r.n, results), 1)]

deepTraverse(obj, vis, path, parent, key) ==
    CASE ~IsObject(obj) -> [n |-> obj, acc |-> ZeroAcc(vis)]
      [] OTHER -> traverseChildren(Visitor(vis, obj, path, parent, key, ZeroAcc(vis)),
                                   vis, path)

\* the result r of a traversal, the counter having stood at acc before it
Counted(r, vis, acc) == [n |-> r.n, acc |-> AddAcc(vis, acc, r.acc)]

\* a traversal of the whole document, the counter standing at acc before it
Traverse(spec, vis, acc) == Counted(deepTraverse(spec, vis, <<>>, Undef, Undef), vis, acc)

\* a traversal's result as the result of a transformation
Changed(r) == [spec |-> r.n, count |-> r.acc]

\* spec.components?.schemas, and the names of the entities that are objects
Schemas(spec) == GetIn(spec, <<"components", "schemas">>)

SchemaNames(spec) ==
    IF IsObj(Schemas(spec))
    THEN SelectSeq(Keys(Schemas(spec)), LAMBDA name : IsObject(Get(Schemas(spec), name)))
    ELSE <<>>

SetSchema(spec, name, schema) == SetIn(spec, <<"components", "schemas", name>>, schema)

\* src/config.ts updateAllRefs
updateAllRefs(spec, oldToNew) ==
    Changed(Traverse(spec, [name |-> "updateAllRefs", oldToNew |-> oldToNew], 0))

----------------------------------------------------------------------------
(* Entity renames *)

\* new Map(renames.map((r) => [r.from, r.to])).get(name): the last rule wins
RECURSIVE renameMapGet(_, _, _)
renameMapGet(renames, name, i) ==
    IF i = 0 THEN ""
    ELSE IF renames[i].from = name THEN renames[i].to
         ELSE renameMapGet(renames, name, i - 1)

\* the renamed entity: its original name recorded, its description patched
renamedSchema(schema, name, newName) ==
    LET marked == Set(schema, "x-algokit-original-name", Str(name))
        description == Get(marked, "description")
    IN IF IsStr(description) /\ Truthy(description)
       THEN Set(marked, "description",
                Str(StripFriendly(ReplaceAll(description.str, name, newName))))
       ELSE marked

\* the entry the loop writes to newSchemas for the i-th entity
NewEntry(entries, renames, i) ==
    LET name == entries[i].k
        newName == renameMapGet(renames, name, Len(renames))
    IN IF newName # "" THEN KV(newName, renamedSchema(entries[i].v, name, newName))
       ELSE entries[i]

\* the loop building newSchemas, entry by entry: newSchemas[e.k] = e.v
RECURSIVE buildNewSchemas(_, _, _, _)
buildNewSchemas(entries, renames, i, newSchemas) ==
    CASE i > Len(entries) -> newSchemas
      [] Has(newSchemas, NewEntry(entries, renames, i).k) ->
             buildNewSchemas(entries, renames, i + 1,
                             [newSchemas EXCEPT
                                 !.obj[IdxOf(newSchemas, NewEntry(entries, renames, i).k)].v =
                                     NewEntry(entries, renames, i).v])
      [] OTHER -> buildNewSchemas(entries, renames, i + 1,
                                  Obj(Append(newSchemas.obj, NewEntry(entries, renames, i))))

\* src/config.ts renameSchemas (src/main.ts renameSchemas, once an entity is
\* renamed, does the same on a shallow copy of each renamed entity)
renameSchemas(spec, renames) ==
    IF ~Truthy(Schemas(spec)) THEN [spec |-> spec, count |-> 0]
    ELSE LET entries == Schemas(spec).obj
             renamed == {i \in 1..Len(entries) :
                            renameMapGet(renames, entries[i].k, Len(renames)) # ""}
             refUpdates == [name \in {entries[i].k : i \in renamed} |->
                               renameMapGet(renames, name, Len(renames))]
             newSchemas == buildNewSchemas(entries, renames, 1, EmptyObj)
             replaced == SetIn(spec, <<"components", "schemas">>, newSchemas)
         IN [spec |-> updateAllRefs(replaced, refUpdates).spec,
             count |-> Cardinality(renamed)]

\* src/main.ts renameSchemas: it returns before updateRefs when the list is
\* empty or no entity was renamed, the entity table then being as it was
renameSchemasMain(spec, renames) ==
    IF \/ ~Truthy(Schemas(spec))
       \/ Len(renames) = 0
       \/ \A i \in 1..Len(Schemas(spec).obj) :
              renameMapGet(renames, Schemas(spec).obj[i].k, Len(renames)) = ""
    THEN [spec |-> spec, count |-> 0]
    ELSE renameSchemas(spec, renames)

----------------------------------------------------------------------------
(* Field renames and removals *)

\* required.indexOf(from), 0 when absent
IndexOfStr(a, s) ==
    IF Includes(a, s) THEN CHOOSE i \in 1..Len(a.arr) :
                               a.arr[i] = Str(s) /\ \A j \in 1..(i - 1) : a.arr[j] # Str(s)
    ELSE 0

\* a rename that moves the property and leaves the required list as it was
applyFieldRenameKeepRequired(schema, rename) ==
    LET props == Get(schema, "properties")
    IN Set(schema, "properties",
           Del(Set(props, rename.to, Get(props, rename.from)), rename.from))

\* the body of one rename on a schema whose properties hold rename.from
applyFieldRename(schema, rename) ==
    LET props == Get(schema, "properties")
        moved == Del(Set(props, rename.to, Get(props, rename.from)), rename.from)
        s1 == Set(schema, "properties", moved)
        required == Get(s1, "required")
        idx == IndexOfStr(required, rename.from)
    IN IF IsArr(required) /\ idx # 0
       THEN Set(s1, "required", SetChild(required, idx, Str(rename.to)))
       ELSE s1

\* for (const rename of config.fieldRenames) on one schema;
\* present(props, from) is the test the processor makes
RECURSIVE renameFieldsOfSchema(_, _, _, _, _)
renameFieldsOfSchema(schema, fieldRenames, i, count, truthyTest) ==
    IF i > Len(fieldRenames) THEN [schema |-> schema, count |-> count]
    ELSE LET props == Get(schema, "properties")
             present == IF truthyTest THEN Truthy(Get(props, fieldRenames[i].from))
                        ELSE Has(props, fieldRenames[i].from)
         IN IF present
            THEN renameFieldsOfSchema(applyFieldRename(schema, fieldRenames[i]),
                                      fieldRenames, i + 1, count + 1, truthyTest)
            ELSE renameFieldsOfSchema(schema, fieldRenames, i + 1, count, truthyTest)

\* schemaFieldRenames.find((c) => c.schemaName === schemaName): index or 0
FindConfig(schemaFieldRenames, schemaName) ==
    IF \E i \in 1..Len(schemaFieldRenames) : schemaFieldRenames[i].schemaName = schemaName
    THEN CHOOSE i \in 1..Len(schemaFieldRenames) :
             /\ schemaFieldRenames[i].schemaName = schemaName
             /\ \A j \in 1..(i - 1) : schemaFieldRenames[j].schemaName # schemaName
    ELSE 0

\* src/config.ts renameSchemaFields
RECURSIVE renameSchemaFieldsFrom(_, _, _, _, _)
renameSchemaFieldsFrom(spec, names, schemaFieldRenames, i, count) ==
    IF i > Len(names) THEN [spec |-> spec, count |-> count]
    ELSE LET schema == Get(Schemas(spec), names[i])
             c == FindConfig(schemaFieldRenames, names[i])
         IN IF c = 0 \/ ~Truthy(Get(schema, "properties"))
            THEN renameSchemaFieldsFrom(spec, names, schemaFieldRenames, i + 1, count)
            ELSE LET r == renameFieldsOfSchema(schema, schemaFieldRenames[c].fieldRenames,
                                               1, 0, TRUE)
                 IN renameSchemaFieldsFrom(SetSchema(spec, names[i], r.schema), names,
                                           schemaFieldRenames, i + 1, count + r.count)

renameSchemaFields(spec, schemaFieldRenames) ==
    renameSchemaFieldsFrom(spec, SchemaNames(spec), schemaFieldRenames, 1, 0)

\* src/main.ts renameSchemaFields: rule by rule, the schema looked up by name
RECURSIVE renameSchemaFieldsMainFrom(_, _, _, _)
renameSchemaFieldsMainFrom(spec, fieldRenames, i, count) ==
    IF i > Len(fieldRenames) THEN [spec |-> spec, count |-> count]
    ELSE LET schema == Get(Schemas(spec), fieldRenames[i].schemaName)
         IN IF ~IsObject(schema) \/ ~Truthy(Get(schema, "properties"))
            THEN renameSchemaFieldsMainFrom(spec, fieldRenames, i + 1, count)
            ELSE LET r == renameFieldsOfSchema(schema, fieldRenames[i].fieldRenames,
                                               1, 0, FALSE)
                 IN renameSchemaFieldsMainFrom(
                        SetSchema(spec, fieldRenames[i].schemaName, r.schema),
                        fieldRenames, i + 1, count + r.count)

renameSchemaFieldsMain(spec, fieldRenames) ==
    IF ~Truthy(Schemas(spec)) \/ Len(fieldRenames) = 0 THEN [spec |-> spec, count |-> 0]
    ELSE renameSchemaFieldsMainFrom(spec, fieldRenames, 1, 0)

\* src/config.ts removeSchemaFields, the fields of one schema
RECURSIVE removeFieldsOfSchema(_, _, _, _)
removeFieldsOfSchema(schema, fieldsToRemove, i, count) ==
    IF i > Len(fieldsToRemove) THEN [schema |-> schema, count |-> count]
    ELSE LET field == fieldsToRemove[i]
             props == Get(schema, "properties")
         IN IF Truthy(Get(props, field))
            THEN LET s1 == Set(schema, "properties", Del(props, field))
                     required == Get(s1, "required")
                     filtered == Without(required, field)
                     s2 == IF ~IsArr(required) THEN s1
                           ELSE IF Len(filtered.arr) = 0 THEN Del(s1, "required")
                                ELSE Set(s1, "required", filtered)
                 IN removeFieldsOfSchema(s2, fieldsToRemove, i + 1, count + 1)
            ELSE removeFieldsOfSchema(schema, fieldsToRemove, i + 1, count)

\* src/main.ts removeSchemaFields, the fields of one schema
RECURSIVE removeFieldsOfSchemaMain(_, _, _, _)
removeFieldsOfSchemaMain(schema, fieldsToRemove, i, count) ==
    IF i > Len(fieldsToRemove) THEN [schema |-> schema, count |-> count]
    ELSE LET props == Get(schema, "properties")
         IN IF Has(props, fieldsToRemove[i])
            THEN removeFieldsOfSchemaMain(
                     Set(schema, "properties", Del(props, fieldsToRemove[i])),
                     fieldsToRemove, i + 1, count + 1)
            ELSE removeFieldsOfSchemaMain(schema, fieldsToRemove, i + 1, count)

RECURSIVE removeSchemaFieldsFrom(_, _, _, _, _, _)
removeSchemaFieldsFrom(spec, names, fieldsToRemove, i, count, legacy) ==
    IF i > Len(names) THEN [spec |-> spec, count |-> count]
    ELSE LET schema == Get(Schemas(spec), names[i])
         IN IF ~Truthy(Get(schema, "properties"))
            THEN removeSchemaFieldsFrom(spec, names, fieldsToRemove, i + 1, count, legacy)
            ELSE LET r == IF legacy
                          THEN removeFieldsOfSchemaMain(schema, fieldsToRemove, 1, 0)
                          ELSE removeFieldsOfSchema(schema, fieldsToRemove, 1, 0)
                 IN removeSchemaFieldsFrom(SetSchema(spec, names[i], r.schema), names,
                                           fieldsToRemove, i + 1, count + r.count, legacy)

\* src/config.ts removeSchemaFields
removeSchemaFields(spec, fieldsToRemove) ==
    removeSchemaFieldsFrom(spec, SchemaNames(spec), fieldsToRemove, 1, 0, FALSE)

\* src/main.ts removeSchemaFields
removeSchemaFieldsMain(spec, fieldsToRemove) ==
    IF ~Truthy(Schemas(spec)) \/ Len(fieldsToRemove) = 0 THEN [spec |-> spec, count |-> 0]
    ELSE removeSchemaFieldsFrom(spec, SchemaNames(spec), fieldsToRemove, 1, 0, TRUE)

----------------------------------------------------------------------------
(* Required sets *)

\* for (const propName of propNames) if (!required.includes(propName)) push
RECURSIVE pushMissing(_, _, _, _)
pushMissing(required, propNames, i, count) ==
    IF i > Len(propNames) THEN [required |-> required, count |-> count]
    ELSE IF Includes(required, propNames[i])
         THEN pushMissing(required, propNames, i + 1, count)
         ELSE pushMissing(Push(required, propNames[i]), propNames, i + 1, count + 1)

\* one schema of makeAllFieldsRequired; skipEmpty is src/main.ts's early
\* continue on a schema without property names
requireAllOfSchema(schema, skipEmpty) ==
    LET props == Get(schema, "properties")
        propNames == IF IsObj(props) THEN Keys(props) ELSE <<>>
        required == IF Truthy(Get(schema, "required")) THEN Get(schema, "required")
                    ELSE Arr(<<>>)
        r == pushMissing(required, propNames, 1, 0)
    IN IF ~Truthy(props) \/ (skipEmpty /\ Len(propNames) = 0)
       THEN [schema |-> schema, count |-> 0]
       ELSE [schema |-> Set(schema, "required", r.required), count |-> r.count]

RECURSIVE makeAllFieldsRequiredFrom(_, _, _, _, _)
makeAllFieldsRequiredFrom(spec, names, i, count, skipEmpty) ==
    IF i > Len(names) THEN [spec |-> spec, count |-> count]
    ELSE LET r == requireAllOfSchema(Get(Schemas(spec), names[i]), skipEmpty)
         IN makeAllFieldsRequiredFrom(SetSchema(spec, names[i], r.schema), names,
                                      i + 1, count + r.count, skipEmpty)

\* src/config.ts makeAllFieldsRequired
makeAllFieldsRequired(spec) ==
    makeAllFieldsRequiredFrom(spec, SchemaNames(spec), 1, 0, FALSE)

\* src/main.ts makeAllFieldsRequired
makeAllFieldsRequiredMain(spec) ==
    makeAllFieldsRequiredFrom(spec, SchemaNames(spec), 1, 0, TRUE)

\* src/config.ts transformRequiredFields, one field name of one rule
toggleRequired(schema, fieldName, makeRequired) ==
    LET s1 == IF Truthy(Get(schema, "required")) THEN schema
              ELSE Set(schema, "required", Arr(<<>>))
        required == Get(s1, "required")
        filtered == Without(required, fieldName)
    IN IF ~Truthy(GetIn(schema, <<"properties", fieldName>>))
       THEN [schema |-> schema, count |-> 0]
       ELSE IF makeRequired /\ ~Includes(required, fieldName)
            THEN [schema |-> Set(s1, "required", Push(required, fieldName)), count |-> 1]
            ELSE IF ~makeRequired /\ Includes(required, fieldName)
                 THEN [schema |-> IF Len(filtered.arr) = 0 THEN Del(s1, "required")
                                  ELSE Set(s1, "required", filtered),
                       count |-> 1]
                 ELSE [schema |-> s1, count |-> 0]

\* src/main.ts transformRequiredFields, one field name of one rule
toggleRequiredMain(schema, fieldName, makeRequired) ==
    LET required == Get(schema, "required")
        filtered == Without(required, fieldName)
        removed == Len(required.arr) - Len(filtered.arr)
    IN IF makeRequired
       THEN IF Includes(required, fieldName) THEN [schema |-> schema, count |-> 0]
            ELSE [schema |-> Set(schema, "required", Push(required, fieldName)), count |-> 1]
       ELSE IF Truthy(required) /\ IsArr(required)
            THEN [schema |-> IF Len(filtered.arr) = 0 THEN Del(schema, "required")
                             ELSE Set(schema, "required", filtered),
                  count |-> removed]
            ELSE [schema |-> schema, count |-> 0]

\* for (const fieldName of fieldNames) on one schema
RECURSIVE toggleFields(_, _, _, _, _, _)
toggleFields(schema, fieldNames, makeRequired, i, count, legacy) ==
    IF i > Len(fieldNames) THEN [schema |-> schema, count |-> count]
    ELSE LET r == IF legacy THEN toggleRequiredMain(schema, fieldNames[i], makeRequired)
                  ELSE toggleRequired(schema, fieldNames[i], makeRequired)
         IN toggleFields(r.schema, fieldNames, makeRequired, i + 1, count + r.count, legacy)

\* for (const transform of transforms) on the schema named schemaName
RECURSIVE transformsOfSchema(_, _, _, _, _)
transformsOfSchema(schema, schemaName, transforms, i, count) ==
    IF i > Len(transforms) THEN [schema |-> schema, count |-> count]
    ELSE IF transforms[i].schemaName # schemaName
         THEN transformsOfSchema(schema, schemaName, transforms, i + 1, count)
         ELSE LET r == toggleFields(schema, transforms[i].fieldName,
                                    transforms[i].makeRequired, 1, 0, FALSE)
              IN transformsOfSchema(r.schema, schemaName, transforms, i + 1, count + r.count)

\* toggles that are not applied
transformRequiredFieldsNone(spec, transforms) == [spec |-> spec, count |-> 0]

RECURSIVE transformRequiredFieldsFrom(_, _, _, _, _)
transformRequiredFieldsFrom(spec, names, transforms, i, count) ==
    IF i > Len(names) THEN [spec |-> spec, count |-> count]
    ELSE LET r == transformsOfSchema(Get(Schemas(spec), names[i]), names[i], transforms, 1, 0)
         IN transformRequiredFieldsFrom(SetSchema(spec, names[i], r.schema), names,
                                        transforms, i + 1, count + r.count)

\* src/config.ts transformRequiredFields
transformRequiredFields(spec, transforms) ==
    transformRequiredFieldsFrom(spec, SchemaNames(spec), transforms, 1, 0)

\* src/main.ts transformRequiredFields: rule by rule, the schema looked up by name
RECURSIVE transformRequiredFieldsMainFrom(_, _, _, _)
transformRequiredFieldsMainFrom(spec, transforms, i, count) ==
    IF i > Len(transforms) THEN [spec |-> spec, count |-> count]
    ELSE LET config == transforms[i]
             schema == Get(Schemas(spec), config.schemaName)
             s1 == IF config.makeRequired /\ ~Truthy(Get(schema, "required"))
                   THEN Set(schema, "required", Arr(<<>>))
                   ELSE schema
             r == toggleFields(s1, config.fieldName, config.makeRequired, 1, 0, TRUE)
         IN IF ~Truthy(schema)
            THEN transformRequiredFieldsMainFrom(spec, transforms, i + 1, count)
            ELSE transformRequiredFieldsMainFrom(
                     SetSchema(spec, config.schemaName, r.schema),
                     transforms, i + 1, count + r.count)

transformRequiredFieldsMain(spec, requiredFieldTransforms) ==
    IF ~Truthy(Schemas(spec)) \/ Len(requiredFieldTransforms) = 0
    THEN [spec |-> spec, count |-> 0]
    ELSE transformRequiredFieldsMainFrom(spec, requiredFieldTransforms, 1, 0)

----------------------------------------------------------------------------
(* Cascading removal of empty entities *)

\* schema.properties is an object without keys
HasEmptyProperties(schema) ==
    LET props == Get(schema, "properties")
    IN IsObject(props) /\ NumChildren(props) = 0

\* the names of the empty entities, in table order
EmptySchemaNames(spec) ==
    SelectSeq(SchemaNames(spec), LAMBDA name : HasEmptyProperties(Get(Schemas(spec), name)))

SeqToSet(q) == {q[i] : i \in 1..Len(q)}

\* for (const schemaName of emptySchemas) delete spec.components.schemas[schemaName]
RECURSIVE deleteSchemas(_, _, _)
deleteSchemas(spec, names, i) ==
    IF i > Len(names) THEN spec
    ELSE deleteSchemas(DelIn(spec, <<"components", "schemas", names[i]>>), names, i + 1)

\* src/config.ts removeEmptySchemas; cleaned is the document when the three
\* traversals have returned and the deletion loop has not started
emptySchemasRemoved(cleaned, names) ==
    [cleaned |-> cleaned, spec |-> deleteSchemas(cleaned, names, 1), count |-> Len(names),
     updated |-> 0]

\* the three traversals of removeEmptySchemas, one after the other
emptySchemaRefsCleaned(spec, emptySchemas) ==
    Traverse(Traverse(Traverse(spec, [name |-> "dropEmptyRef",
                                      emptySchemas |-> emptySchemas], 0).n,
                      [name |-> "cleanContent"], 0).n,
             [name |-> "allOf", emptySchemas |-> emptySchemas], 0).n

removeEmptySchemasOf(spec, names) ==
    IF ~Truthy(Schemas(spec)) \/ Len(names) = 0
    THEN [spec |-> spec, count |-> 0, cleaned |-> spec, updated |-> 0]
    ELSE emptySchemasRemoved(emptySchemaRefsCleaned(spec, SeqToSet(names)), names)

removeEmptySchemas(spec) == removeEmptySchemasOf(spec, EmptySchemaNames(spec))

\* schema.$ref.match(/^#\/components\/schemas\/(.+)$/) names an empty schema
refersToEmpty(schema, names) ==
    /\ IsObject(schema)
    /\ IsSchemaRef(schema)
    /\ RefName(schema) # ""
    /\ RefName(schema) \in SeqToSet(names)

\* src/main.ts removeEmptySchemas.replaceSchemaReferences: the node that
\* stands where obj stood, the number of replaced content objects, and
\* whether obj itself was replaced by {}
RECURSIVE replaceSchemaReferences(_, _, _, _)

\* the recursion into the items of an array or the values of a map: their
\* results, as a tuple so that each is computed once; a call changes only
\* what stands where its argument stood, so each counts from zero
replaceInChildren(obj, names, acc) ==
    LET results == [i \in 1..NumChildren(obj) |->
                       replaceSchemaReferences(Child(obj, i), ChildKey(obj, i), names, 0)]
                   \o <<>>
    IN IF results = <<>> THEN [n |-> obj, acc |-> acc, replaced |-> FALSE]
       ELSE [n |-> WithChildren(obj, results),
             acc |-> acc + SumSeq([i \in 1..Len(results) |-> results[i].acc]),
             replaced |-> FALSE]

replaceSchemaReferences(obj, parentKey, names, acc) ==
    IF ~IsObject(obj) THEN [n |-> obj, acc |-> acc, replaced |-> FALSE]
    ELSE IF IsArr(obj) THEN replaceInChildren(obj, names, acc)
    ELSE IF /\ parentKey = "content"
            /\ \E i \in 1..Len(obj.obj) :
                   /\ IsObject(obj.obj[i].v)
                   /\ refersToEmpty(Get(obj.obj[i].v, "schema"), names)
         THEN [n |-> EmptyObj, acc |-> acc + 1, replaced |-> TRUE]
         ELSE replaceInChildren(obj, names, acc)

\* replaceSchemaReferences(otherComponents): the children of components other
\* than schemas; a replacement of such a child itself is made in the copy
\* otherComponents and is lost
RECURSIVE replaceInOtherComponents(_, _, _, _)
replaceInOtherComponents(components, names, i, acc) ==
    IF i > Len(components.obj) THEN [n |-> components, acc |-> acc]
    ELSE IF components.obj[i].k = "schemas"
         THEN replaceInOtherComponents(components, names, i + 1, acc)
         ELSE LET r == replaceSchemaReferences(components.obj[i].v, components.obj[i].k,
                                               names, acc)
              IN replaceInOtherComponents(
                     IF r.replaced THEN components ELSE SetChild(components, i, r.n),
                     names, i + 1, r.acc)

\* src/main.ts removeEmptySchemas
removeEmptySchemasMain(spec) ==
    LET names == EmptySchemaNames(spec)
        p == replaceSchemaReferences(Get(spec, "paths"), "", names, 0)
        s1 == IF Truthy(Get(spec, "paths")) THEN Set(spec, "paths", p.n) ELSE spec
        a1 == IF Truthy(Get(spec, "paths")) THEN p.acc ELSE 0
        c == replaceInOtherComponents(Get(s1, "components"), names, 1, a1)
        s2 == Set(s1, "components", c.n)
    IN IF ~Truthy(Schemas(spec)) \/ Len(names) = 0
       THEN [spec |-> spec, count |-> 0, cleaned |-> spec, updated |-> 0]
       ELSE [spec |-> deleteSchemas(s2, names, 1), count |-> Len(names),
             cleaned |-> s2, updated |-> c.acc]

----------------------------------------------------------------------------
(* Annotation stages *)

\* current[part] of resolveRef and of array indexing: a key of a map or the
\* decimal index of an array element
ArrayIndex(n, part) == FirstIndex({i \in 1..Len(n.arr) : ToString(i - 1) = part})

At(n, part) ==
    CASE DOMAIN n # {"arr"} -> Get(n, part)
      [] ArrayIndex(n, part) # 0 -> n.arr[ArrayIndex(n, part)]
      [] OTHER -> Undef

RECURSIVE AtPath(_, _)
AtPath(n, path) ==
    CASE path = <<>> -> n
      [] DOMAIN n \in {{"obj"}, {"arr"}} -> AtPath(At(n, Head(path)), Tail(path))
      [] OTHER -> Undef

\* an assignment through a reference obtained by walking path from n
RECURSIVE PutAt(_, _, _)
PutAt(n, path, v) ==
    CASE path = <<>> -> v
      [] IsArr(n) -> [n EXCEPT !.arr[ArrayIndex(n, Head(path))] = PutAt(@, Tail(path), v)]
      [] Has(n, Head(path)) ->
             [n EXCEPT !.obj[IdxOf(n, Head(path))].v = PutAt(@, Tail(path), v)]
      [] OTHER -> [obj |-> Append(n.obj, [k |-> Head(path), v |-> PutAt(Undef, Tail(path), v)])]

\* assignments to nodes none of which contains another, in any order
RECURSIVE PutAll(_, _)
PutAll(spec, targets) ==
    IF targets = {} THEN spec
    ELSE LET t == CHOOSE t \in targets : TRUE
         IN PutAll(PutAt(spec, t.at, t.v), targets \ {t})

\* forEachSchemaProperty, the entries of one properties map
RECURSIVE propertiesOfSchema(_, _, _, _, _)
propertiesOfSchema(cb, schemaName, properties, i, count) ==
    IF i > NumChildren(properties) THEN [n |-> properties, count |-> count]
    ELSE IF ~IsObject(Child(properties, i))
         THEN propertiesOfSchema(cb, schemaName, properties, i + 1, count)
         ELSE LET r == PropCallback(cb, schemaName, ChildKey(properties, i),
                                    Child(properties, i))
              IN propertiesOfSchema(cb, schemaName, SetChild(properties, i, r.n),
                                    i + 1, count + r.count)

RECURSIVE forEachSchemaPropertyFrom(_, _, _, _, _)
forEachSchemaPropertyFrom(spec, cb, names, i, count) ==
    IF i > Len(names) THEN [spec |-> spec, count |-> count]
    ELSE LET properties == GetIn(spec, <<"components", "schemas", names[i], "properties">>)
         IN IF ~IsObject(properties)
            THEN forEachSchemaPropertyFrom(spec, cb, names, i + 1, count)
            ELSE LET r == propertiesOfSchema(cb, names[i], properties, 1, count)
                 IN forEachSchemaPropertyFrom(
                        SetIn(spec, <<"components", "schemas", names[i], "properties">>, r.n),
                        cb, names, i + 1, r.count)

\* src/config.ts forEachSchemaProperty with a counting callback
forEachSchemaProperty(spec, cb) ==
    forEachSchemaPropertyFrom(spec, cb, SchemaNames(spec), 1, 0)

\* the traversal of the inline response schemas with the same callback
inlineResponses(spec, cb, count) ==
    Changed(Traverse(spec, [name |-> "inline", cb |-> cb], count))

\* MISSING_DESCRIPTIONS.get(path), "" when there is none
DescriptionOf(path) ==
    LET i == FirstIndex({j \in 1..Len(MISSING_DESCRIPTIONS) : MISSING_DESCRIPTIONS[j].k = path})
    IN IF i = 0 THEN "" ELSE MISSING_DESCRIPTIONS[i].v

\* the responses without a description: where they are and their table key
UndescribedResponses(spec) ==
    LET responses == GetIn(spec, <<"components", "responses">>)
        paths == Get(spec, "paths")
        named == IF IsObj(responses) THEN KeySet(responses) ELSE {}
        ops == IF IsObj(paths)
               THEN {pm \in KeySet(paths) \X SeqToSet(HTTP_METHODS) :
                        IsObj(GetIn(paths, <<pm[1], pm[2], "responses">>))}
               ELSE {}
    IN {[at |-> <<"components", "responses", name>>,
         key |-> "components.responses." \o name \o ".description"] : name \in named}
       \cup UNION {{[at |-> <<"paths", pm[1], pm[2], "responses", code>>,
                     key |-> "paths.'" \o pm[1] \o "'(" \o pm[2] \o ").responses."
                             \o code \o ".description"] :
                       code \in KeySet(GetIn(paths, <<pm[1], pm[2], "responses">>))} :
                   pm \in ops}

\* src/config.ts fixMissingDescriptions
fixMissingDescriptions(spec) ==
    LET fixed == {t \in UndescribedResponses(spec) :
                     /\ IsObj(GetIn(spec, t.at))
                     /\ ~Truthy(Get(GetIn(spec, t.at), "description"))
                     /\ DescriptionOf(t.key) # ""}
    IN [spec |-> PutAll(spec, {[at |-> Append(t.at, "description"),
                                v |-> Str(DescriptionOf(t.key))] : t \in fixed}),
        count |-> Cardinality(fixed)]

\* src/config.ts fixPydanticRecursionError
fixPydanticRecursionError(spec) ==
    LET at == <<"components", "schemas", "AvmValue", "properties", "bytes">>
    IN IF /\ Truthy(GetIn(spec, <<"components", "schemas", "AvmValue">>))
          /\ Get(GetIn(spec, at), "format") = Str("byte")
       THEN [spec |-> SetIn(spec, at, Del(GetIn(spec, at), "format")), count |-> 1]
       ELSE [spec |-> spec, count |-> 0]

\* src/config.ts fixFieldNaming
fixFieldNaming(spec) ==
    LET r == forEachSchemaProperty(spec, [name |-> "fixFieldNaming"])
    IN inlineResponses(r.spec, [name |-> "fixFieldNaming"], r.count)

\* src/config.ts fixTealValueBytes
fixTealValueBytes(spec) == forEachSchemaProperty(spec, [name |-> "fixTealValueBytes"])

\* forEachParameter: the parameters of the operations, by path, method and
\* position
ParameterSlots(spec) ==
    LET paths == Get(spec, "paths")
    IN IF ~IsObj(paths) THEN {}
       ELSE UNION {{<<pm[1], pm[2], i>> :
                       i \in 1..Len(GetIn(paths, <<pm[1], pm[2], "parameters">>).arr)} :
                   pm \in {qm \in KeySet(paths) \X SeqToSet(HTTP_METHODS) :
                              IsArr(GetIn(paths, <<qm[1], qm[2], "parameters">>))}}

ParameterAt(spec, slot) ==
    GetIn(spec, <<"paths", slot[1], slot[2], "parameters">>).arr[slot[3]]

ParameterName(param) == IF IsStr(Get(param, "name")) THEN Get(param, "name").str ELSE ""

\* fixBigInt, the parameters whose schema gets the marker
bigIntParameters(spec) ==
    {slot \in ParameterSlots(spec) :
        LET param == ParameterAt(spec, slot)
        IN /\ Truthy(Get(param, "schema"))
           /\ bigIntOf("", ParameterName(param), Get(param, "schema")).count = 1}

\* src/config.ts fixBigInt
fixBigInt(spec) ==
    LET r == forEachSchemaProperty(spec, [name |-> "fixBigInt"])
        marked == bigIntParameters(r.spec)
        withParams ==
            PutAll(r.spec,
                   {[at |-> <<"paths", slot[1], slot[2], "parameters",
                              ToString(slot[3] - 1), "schema">>,
                     v |-> Set(Get(ParameterAt(r.spec, slot), "schema"),
                               "x-algokit-bigint", Bool(TRUE))] : slot \in marked})
    IN inlineResponses(withParams, [name |-> "fixBigInt"], r.count + Cardinality(marked))

\* src/config.ts fixFixedLengthByteFields
fixFixedLengthByteFields(spec, fields) ==
    LET cb == [name |-> "fixFixedLengthByteFields", fields |-> fields]
        r == forEachSchemaProperty(spec, cb)
    IN inlineResponses(r.spec, cb, r.count)

\* transformProperties: for (const itemToRemove of transform.removeItems)
RECURSIVE removeItemsOf(_, _, _, _)
removeItemsOf(obj, items, i, count) ==
    IF i > Len(items) THEN [n |-> obj, count |-> count]
    ELSE IF Has(obj, items[i])
         THEN removeItemsOf(Del(obj, items[i]), items, i + 1, count + 1)
         ELSE removeItemsOf(obj, items, i + 1, count)

\* transformProperties: for (const [key, value] of Object.entries(transform.addItems))
RECURSIVE addItemsOf(_, _, _, _)
addItemsOf(obj, items, i, count) ==
    IF i > Len(items) THEN [n |-> obj, count |-> count]
    ELSE addItemsOf(Set(obj, items[i].k, items[i].v), items, i + 1, count + 1)

\* a matcher that knows the properties-anchored shape alone
transformMatchesProperties(transform, obj, currentPath, parent) ==
    /\ EndsWith(Join(currentPath, "."), "properties." \o transform.fieldName)
    /\ transform.schemaName # "" =>
           EndsWith(Join(currentPath, "."),
                    "components.schemas." \o transform.schemaName \o ".properties."
                    \o transform.fieldName)

\* a matcher that does not look at the owning entity
transformMatchesUnscoped(transform, obj, currentPath, parent) ==
    \/ EndsWith(Join(currentPath, "."), "properties." \o transform.fieldName)
    \/ EndsWith(Join(currentPath, "."), "components.parameters." \o transform.fieldName)
    \/ Len(Split(transform.fieldName, ".")) = 1 /\ Get(obj, "name") = Str(transform.fieldName)

\* transformProperties: does the transform apply to the map at currentPath
transformMatches(transform, obj, currentPath, parent) ==
    LET fullPath == Join(currentPath, ".")
        fieldParts == Split(transform.fieldName, ".")
        baseName == fieldParts[1]
        isPropertyMatch == EndsWith(fullPath, "properties." \o transform.fieldName)
        isParameterMatch ==
            EndsWith(fullPath, "components.parameters." \o transform.fieldName)
        isInlineParameterMatch ==
            \/ Len(fieldParts) = 1 /\ Get(obj, "name") = Str(baseName)
            \/ /\ Len(fieldParts) = 2
               /\ Truthy(parent)
               /\ Get(parent, "name") = Str(baseName)
               /\ Len(currentPath) > 0
               /\ currentPath[Len(currentPath)] = fieldParts[2]
        schemaPath == "components.schemas." \o transform.schemaName \o ".properties."
                      \o transform.fieldName
    IN /\ isPropertyMatch \/ isParameterMatch \/ isInlineParameterMatch
       /\ ~(transform.schemaName # "" /\ isPropertyMatch /\ ~EndsWith(fullPath, schemaPath))

\* transformProperties: for (const transform of transforms) on one map
RECURSIVE transformsOfObject(_, _, _, _, _, _)
transformsOfObject(transforms, obj, currentPath, parent, i, count) ==
    IF i > Len(transforms) THEN [n |-> obj, count |-> count]
    ELSE IF transformMatches(transforms[i], obj, currentPath, parent)
         THEN LET removed == removeItemsOf(obj, transforms[i].removeItems, 1, count)
                  added == addItemsOf(removed.n, transforms[i].addItems, 1, removed.count)
              IN transformsOfObject(transforms, added.n, currentPath, parent, i + 1,
                                    added.count)
         ELSE transformsOfObject(transforms, obj, currentPath, parent, i + 1, count)

\* transformProperties: processObject.  The recursion into the items of an
\* array or the values of a map is a tuple of results, so that each child is
\* processed once; a call changes only the object it is given, so each
\* counts from zero
RECURSIVE processObject(_, _, _, _)
processObject(transforms, obj, currentPath, parent) ==
    LET r == IF IsArr(obj) THEN [n |-> obj, count |-> 0]
             ELSE transformsOfObject(transforms, obj, currentPath, parent, 1, 0)
        results == [i \in 1..NumChildren(r.n) |->
                       processObject(transforms, Child(r.n, i),
                                     Append(currentPath, ChildKey(r.n, i)), r.n)] \o <<>>
    IN CASE ~IsObject(obj) -> [n |-> obj, count |-> 0]
         [] results = <<>> -> r
         [] OTHER -> [n |-> WithChildren(r.n, results),
                      count |-> r.count + SumSeq([i \in 1..Len(results) |-> results[i].count])]

\* src/config.ts transformProperties
transformProperties(spec, transforms) ==
    IF Len(transforms) = 0 THEN [spec |-> spec, count |-> 0]
    ELSE LET r == processObject(transforms, spec, <<>>, Undef)
         IN [spec |-> r.n, count |-> r.count]

\* the sum of the counters of a table
RECURSIVE SumOver(_, _)
SumOver(counts, keys) ==
    IF keys = {} THEN 0
    ELSE LET k == CHOOSE k \in keys : TRUE
         IN counts[k] + SumOver(counts, keys \ {k})

\* the result of transformVendorExtensions: the counts per transform and their sum
vendorExtensionsChanged(r) ==
    [spec |-> r.n, counts |-> r.acc, count |-> SumOver(r.acc, DOMAIN r.acc)]

\* src/config.ts transformVendorExtensions; count is the sum of the table
transformVendorExtensions(spec, transforms) ==
    vendorExtensionsChanged(
        deepTraverse(spec, [name |-> "vendorExtensions", transforms |-> transforms],
                     <<>>, Undef, Undef))

----------------------------------------------------------------------------
(* Endpoint formats, custom entities, entity extensions, endpoint tags *)

\* ref.substring(2).split("/")
RefParts(ref) == Split(Substring(ref, 2), "/")

RECURSIVE walkRef(_, _)
walkRef(current, parts) ==
    IF parts = <<>> THEN current
    ELSE IF ~Truthy(At(current, Head(parts))) THEN Undef
         ELSE walkRef(At(current, Head(parts)), Tail(parts))

\* src/config.ts resolveRef; null is Undef
resolveRef(spec, ref) ==
    IF ~StartsWith(ref, "#/") THEN Undef ELSE walkRef(spec, RefParts(ref))

\* a stage result with the count of the stage so far added to it
AddCount(r, count) == [spec |-> r.spec, count |-> r.count + count]

\* where the object stands that raw.$ref ? resolveRef(spec, raw.$ref) || raw : raw
\* yields, raw being the node at rawPath and ref its $ref
TargetOfRef(spec, rawPath, ref) ==
    IF Truthy(ref) /\ Truthy(resolveRef(spec, ref.str)) THEN RefParts(ref.str)
    ELSE rawPath

TargetPath(spec, rawPath) == TargetOfRef(spec, rawPath, Get(AtPath(spec, rawPath), "$ref"))

\* enforceEndpointFormat: the schema of a format parameter, standing at schemaAt
enforceSchema(spec, schemaAt, schemaObj, enum, target) ==
    IF IsArr(enum)
    THEN IF /\ Includes(enum, "json") \/ Includes(enum, "msgpack")
            /\ Len(enum.arr) # 1 \/ enum.arr[1] # target
         THEN [spec |-> PutAt(spec, schemaAt,
                              IF Get(schemaObj, "default") # target
                              THEN Set(Set(schemaObj, "enum", Arr(<<target>>)),
                                       "default", target)
                              ELSE Set(schemaObj, "enum", Arr(<<target>>))),
               count |-> 1]
         ELSE [spec |-> spec, count |-> 0]
    ELSE IF Get(schemaObj, "type") = Str("string") /\ ~Truthy(enum)
         THEN [spec |-> PutAt(spec, schemaAt,
                              Set(Set(schemaObj, "enum", Arr(<<target>>)),
                                  "default", target)),
               count |-> 1]
         ELSE [spec |-> spec, count |-> 0]

\* const schemaObj = paramObj.schema || paramObj, paramObj standing at at
enforceSchemaAt(spec, schemaAt, target) ==
    enforceSchema(spec, schemaAt, AtPath(spec, schemaAt),
                  Get(AtPath(spec, schemaAt), "enum"), target)

\* if (paramObj && paramObj.name === "format" && paramObj.in === "query")
enforceParamObj(spec, at, paramObj, target) ==
    IF ~(/\ Truthy(paramObj)
         /\ Get(paramObj, "name") = Str("format")
         /\ Get(paramObj, "in") = Str("query"))
    THEN [spec |-> spec, count |-> 0]
    ELSE enforceSchemaAt(spec,
                         IF Truthy(Get(paramObj, "schema")) THEN Append(at, "schema")
                         ELSE at,
                         target)

\* const paramObj = param.$ref ? resolveRef(spec, param.$ref) : param
enforceParamRef(spec, rawPath, ref, target) ==
    IF Truthy(ref)
    THEN enforceParamObj(spec, RefParts(ref.str), resolveRef(spec, ref.str), target)
    ELSE enforceParamObj(spec, rawPath, AtPath(spec, rawPath), target)

\* enforceEndpointFormat: one parameter of an operation
enforceParameter(spec, rawPath, targetFormat) ==
    enforceParamRef(spec, rawPath, Get(AtPath(spec, rawPath), "$ref"), Str(targetFormat))

\* operation.parameters.length, 0 when it is not an array
NumParameters(spec, opPath) ==
    IF IsArr(Get(AtPath(spec, opPath), "parameters"))
    THEN Len(Get(AtPath(spec, opPath), "parameters").arr)
    ELSE 0

\* for (const param of operation.parameters), from the i-th on; r is the
\* result so far
RECURSIVE enforceParametersFrom(_, _, _, _)
enforceParametersFrom(r, opPath, targetFormat, i) ==
    IF i > NumParameters(r.spec, opPath) THEN r
    ELSE enforceParametersFrom(
             AddCount(enforceParameter(r.spec,
                                       opPath \o <<"parameters", ToString(i - 1)>>,
                                       targetFormat),
                      r.count),
             opPath, targetFormat, i + 1)

enforceParameters(r, opPath, targetFormat) == enforceParametersFrom(r, opPath, targetFormat, 1)

ContentType(format) == IF format = "json" THEN "application/json" ELSE "application/msgpack"

OtherFormat(format) == IF format = "json" THEN "msgpack" ELSE "json"

\* an enforcement that deletes nothing
enforceContentKept(spec, rawPath, at, content, targetFormat) == [spec |-> spec, count |-> 0]

\* enforceEndpointFormat: the content table of the object standing at at
enforceContentAt(spec, rawPath, at, content, targetFormat) ==
    IF /\ IsObject(AtPath(spec, rawPath))
       /\ Truthy(content)
       /\ Truthy(Get(content, ContentType(OtherFormat(targetFormat))))
       /\ Truthy(Get(content, ContentType(targetFormat)))
    THEN [spec |-> PutAt(spec, Append(at, "content"),
                         Del(content, ContentType(OtherFormat(targetFormat)))),
          count |-> 1]
    ELSE [spec |-> spec, count |-> 0]

enforceContentOf(spec, rawPath, at, targetFormat) ==
    enforceContentAt(spec, rawPath, at, Get(AtPath(spec, at), "content"), targetFormat)

\* enforceEndpointFormat: the content table of a request body or a response
enforceContent(spec, rawPath, targetFormat) ==
    enforceContentOf(spec, rawPath, TargetPath(spec, rawPath), targetFormat)

\* if (operation.requestBody && typeof operation.requestBody === "object")
enforceRequestBody(r, opPath, targetFormat) ==
    IF Truthy(Get(AtPath(r.spec, opPath), "requestBody"))
    THEN AddCount(enforceContent(r.spec, Append(opPath, "requestBody"), targetFormat),
                  r.count)
    ELSE r

\* Object.entries(operation.responses), the status codes
ResponseCodes(spec, opPath) ==
    IF IsObj(Get(AtPath(spec, opPath), "responses"))
    THEN Keys(Get(AtPath(spec, opPath), "responses"))
    ELSE <<>>

\* for (const [, response] of Object.entries(operation.responses)), from the
\* i-th on; r is the result so far
RECURSIVE enforceResponsesFrom(_, _, _, _)
enforceResponsesFrom(r, opPath, targetFormat, i) ==
    IF i > Len(ResponseCodes(r.spec, opPath)) THEN r
    ELSE enforceResponsesFrom(
             AddCount(enforceContent(r.spec,
                                     opPath \o <<"responses", ResponseCodes(r.spec, opPath)[i]>>,
                                     targetFormat),
                      r.count),
             opPath, targetFormat, i + 1)

enforceResponses(r, opPath, targetFormat) == enforceResponsesFrom(r, opPath, targetFormat, 1)

\* enforceEndpointFormat: one operation; r is the result so far
enforceOperation(r, opPath, targetFormat) ==
    enforceResponses(
        enforceRequestBody(enforceParameters(r, opPath, targetFormat), opPath, targetFormat),
        opPath, targetFormat)

\* endpoint.methods || ["get"]; an absent methods is <<>>, a given one <<methods>>
MethodsOf(endpoint) == IF endpoint.methods = <<>> THEN <<"get">> ELSE endpoint.methods[1]

RECURSIVE enforceMethods(_, _, _, _, _)
enforceMethods(r, path, methods, targetFormat, j) ==
    IF j > Len(methods) THEN r
    ELSE IF ~Truthy(GetIn(r.spec, <<"paths", path, methods[j]>>))
         THEN enforceMethods(r, path, methods, targetFormat, j + 1)
         ELSE enforceMethods(enforceOperation(r, <<"paths", path, methods[j]>>,
                                              targetFormat),
                             path, methods, targetFormat, j + 1)

RECURSIVE enforceEndpoints(_, _, _, _)
enforceEndpoints(r, endpoints, targetFormat, i) ==
    IF i > Len(endpoints) THEN r
    ELSE IF ~Truthy(GetIn(r.spec, <<"paths", endpoints[i].path>>))
         THEN enforceEndpoints(r, endpoints, targetFormat, i + 1)
         ELSE enforceEndpoints(enforceMethods(r, endpoints[i].path,
                                              MethodsOf(endpoints[i]), targetFormat, 1),
                               endpoints, targetFormat, i + 1)

\* src/config.ts enforceEndpointFormat
enforceEndpointFormat(spec, endpoints, targetFormat) ==
    IF ~Truthy(Get(spec, "paths")) \/ Len(endpoints) = 0 THEN [spec |-> spec, count |-> 0]
    ELSE enforceEndpoints([spec |-> spec, count |-> 0], endpoints, targetFormat, 1)

\* src/config.ts createCustomSchema
createCustomSchema(spec, schemaName, schemaDefinition) ==
    LET s1 == IF Truthy(Get(spec, "components")) THEN spec
              ELSE Set(spec, "components", EmptyObj)
        s2 == IF Truthy(Schemas(s1)) THEN s1
              ELSE SetIn(s1, <<"components", "schemas">>, EmptyObj)
    IN IF ~Truthy(Get(Schemas(s2), schemaName))
       THEN [spec |-> SetSchema(s2, schemaName, schemaDefinition), count |-> 1]
       ELSE [spec |-> s2, count |-> 0]

\* process: for (const customSchema of this.config.customSchemas)
RECURSIVE createCustomSchemas(_, _, _, _)
createCustomSchemas(spec, customSchemas, i, count) ==
    IF i > Len(customSchemas) THEN [spec |-> spec, count |-> count]
    ELSE LET r == createCustomSchema(spec, customSchemas[i].name, customSchemas[i].schema)
         IN createCustomSchemas(r.spec, customSchemas, i + 1, count + r.count)

RECURSIVE linkSchemaToPropertiesFrom(_, _, _)
linkSchemaToPropertiesFrom(r, customSchemas, i) ==
    IF i > Len(customSchemas) THEN Changed(r)
    ELSE linkSchemaToPropertiesFrom(
             Traverse(r.n, [name |-> "link", customSchema |-> customSchemas[i]], r.acc),
             customSchemas, i + 1)

\* src/config.ts linkSchemaToProperties
linkSchemaToProperties(spec, customSchemas) ==
    linkSchemaToPropertiesFrom([n |-> spec, acc |-> 0], customSchemas, 1)

\* addSchemaVendorExtensions: for (const ext of schemaExtensions) on one entity
RECURSIVE extensionsOfSchema(_, _, _, _, _)
extensionsOfSchema(schema, schemaName, schemaExtensions, i, count) ==
    IF i > Len(schemaExtensions) THEN [schema |-> schema, count |-> count]
    ELSE IF schemaExtensions[i].schemaName = schemaName
         THEN extensionsOfSchema(Set(schema, schemaExtensions[i].extension,
                                     schemaExtensions[i].value),
                                 schemaName, schemaExtensions, i + 1, count + 1)
         ELSE extensionsOfSchema(schema, schemaName, schemaExtensions, i + 1, count)

RECURSIVE addSchemaVendorExtensionsFrom(_, _, _, _, _)
addSchemaVendorExtensionsFrom(spec, schemaExtensions, names, i, count) ==
    IF i > Len(names) THEN [spec |-> spec, count |-> count]
    ELSE LET r == extensionsOfSchema(Get(Schemas(spec), names[i]), names[i],
                                     schemaExtensions, 1, count)
         IN addSchemaVendorExtensionsFrom(SetSchema(spec, names[i], r.schema),
                                          schemaExtensions, names, i + 1, r.count)

\* src/config.ts addSchemaVendorExtensions
addSchemaVendorExtensions(spec, schemaExtensions) ==
    addSchemaVendorExtensionsFrom(spec, schemaExtensions, SchemaNames(spec), 1, 0)

\* transformEndpointTags: for (const tag of transform.addTags)
RECURSIVE addTagsOf(_, _, _, _)
addTagsOf(tags, addTags, i, count) ==
    IF i > Len(addTags) THEN [tags |-> tags, count |-> count]
    ELSE IF Includes(tags, addTags[i]) THEN addTagsOf(tags, addTags, i + 1, count)
         ELSE addTagsOf(Push(tags, addTags[i]), addTags, i + 1, count + 1)

\* transformEndpointTags: for (const transform of transforms) on one operation
RECURSIVE tagsOfOperation(_, _, _, _, _, _)
tagsOfOperation(operation, path, method, transforms, i, count) ==
    IF i > Len(transforms) THEN [n |-> operation, count |-> count]
    ELSE LET t == transforms[i]
             op1 == IF Truthy(Get(operation, "tags")) THEN operation
                    ELSE Set(operation, "tags", Arr(<<>>))
             tags == Get(op1, "tags")
             kept == IF Len(t.removeTags) > 0
                     THEN Arr(SelectSeq(tags.arr, LAMBDA tag :
                                 ~(IsStr(tag) /\ PathIncludes(t.removeTags, tag.str))))
                     ELSE tags
             added == addTagsOf(kept, t.addTags, 1, Len(tags.arr) - Len(kept.arr))
         IN IF t.path # path \/ (t.methods # <<>> /\ ~PathIncludes(t.methods[1], method))
            THEN tagsOfOperation(operation, path, method, transforms, i + 1, count)
            ELSE tagsOfOperation(Set(op1, "tags", added.tags), path, method, transforms,
                                 i + 1, count + added.count)

\* forEachOperation: the operations of the document, by path and method
OperationSlots(spec) ==
    LET paths == Get(spec, "paths")
    IN IF ~IsObj(paths) THEN {}
       ELSE {pm \in KeySet(paths) \X SeqToSet(HTTP_METHODS) :
                IsObject(Get(paths, pm[1])) /\ Truthy(GetIn(paths, <<pm[1], pm[2]>>))}

\* the operations are distinct maps: each is transformed on its own
RECURSIVE transformEndpointTagsOver(_, _, _, _)
transformEndpointTagsOver(spec, transforms, slots, count) ==
    IF slots = {} THEN [spec |-> spec, count |-> count]
    ELSE LET pm == CHOOSE pm \in slots : TRUE
             r == tagsOfOperation(GetIn(spec, <<"paths", pm[1], pm[2]>>), pm[1], pm[2],
                                  transforms, 1, count)
         IN transformEndpointTagsOver(SetIn(spec, <<"paths", pm[1], pm[2]>>, r.n),
                                      transforms, slots \ {pm}, r.count)

\* src/config.ts transformEndpointTags
transformEndpointTags(spec, transforms) ==
    transformEndpointTagsOver(spec, transforms, OperationSlots(spec), 0)

----------------------------------------------------------------------------
(* Documents the behaviours start from.  Every pointer of these documents   *)
(* resolves, every required array is non-empty and lists only properties.   *)

JsonType == "application/json"

MsgpackType == "application/msgpack"

Typed(t) == Obj(<<KV("type", Str(t))>>)

StrArr(q) == Arr([i \in 1..Len(q) |-> Str(q[i])])

Media(name) == Obj(<<KV("schema", SchemaRef(name))>>)

\* an entity with the given properties (a sequence of key-value pairs) and
\* required names (no required key when there are none)
Entity(props, required) ==
    IF Len(required) = 0
    THEN Obj(<<KV("type", Str("object")), KV("properties", Obj(props))>>)
    ELSE Obj(<<KV("type", Str("object")), KV("properties", Obj(props)),
               KV("required", StrArr(required))>>)

AssetSchema(required) ==
    Entity(<<KV("index", Typed("integer")), KV("name", Typed("string"))>>, required)

ErrSchema(props, required) ==
    Set(Entity(props, required), "description", Str("Err body\nfriendly:Err"))

HolderSchema ==
    Entity(<<KV("err", SchemaRef("Err")), KV("asset", SchemaRef("Asset"))>>, <<"err">>)

\* a composition over Err and Asset: plain, with a third member, or with
\* properties of its own beside the allOf list
WrapSchema(kind) ==
    CASE kind = "pair" ->
           Obj(<<KV("allOf", Arr(<<SchemaRef("Err"), SchemaRef("Asset")>>))>>)
      [] kind = "triple" ->
           Obj(<<KV("allOf", Arr(<<SchemaRef("Err"), SchemaRef("Asset"),
                                   Typed("object")>>))>>)
      [] kind = "props" ->
           Obj(<<KV("allOf", Arr(<<SchemaRef("Err"), SchemaRef("Asset")>>)),
                 KV("properties", Obj(<<KV("extra", Typed("string"))>>))>>)

\* a response given by reference to the response component
SchemaRefResponse == Obj(<<KV("$ref", Str("#/components/responses/Fail"))>>)

\* one operation with a request body and a response carrying Err, and a
\* response component carrying Err
PathsOf(twoTypes) ==
    Obj(<<KV("/a", Obj(<<KV("post", Obj(<<
        KV("requestBody", Obj(<<KV("content", Obj(<<KV(JsonType, Media("Err"))>>))>>)),
        KV("responses", Obj(<<
            KV("200", Obj(<<KV("description", Str("ok")),
                            KV("content",
                               IF twoTypes
                               THEN Obj(<<KV(JsonType, Media("Err")),
                                          KV(MsgpackType, Media("Asset"))>>)
                               ELSE Obj(<<KV(JsonType, Media("Err"))>>))>>)),
            KV("default", SchemaRefResponse)>>))>>))>>))>>)

MakeDoc(errProps, errRequired, assetRequired, wrapKind, twoTypes) ==
    Obj(<<KV("openapi", Str("3.0.0")),
          KV("paths", PathsOf(twoTypes)),
          KV("components", Obj(<<
              KV("schemas", Obj(<<KV("Asset", AssetSchema(assetRequired)),
                                  KV("Err", ErrSchema(errProps, errRequired)),
                                  KV("Wrap", WrapSchema(wrapKind)),
                                  KV("Holder", HolderSchema)>>)),
              KV("responses", Obj(<<KV("Fail", Obj(<<
                  KV("description", Str("failure")),
                  KV("content", Obj(<<KV(JsonType, Media("Err"))>>))>>))>>))>>))>>)

MessageProp == <<KV("message", Typed("string"))>>

InitDocs ==
    { MakeDoc(<<>>, <<>>, <<"index">>, "pair", TRUE),
      MakeDoc(<<>>, <<>>, <<>>, "props", FALSE),
      MakeDoc(<<>>, <<>>, <<"name", "index">>, "triple", TRUE),
      MakeDoc(MessageProp, <<"message">>, <<"index">>, "pair", TRUE),
      MakeDoc(MessageProp, <<>>, <<"index", "name">>, "triple", FALSE),
      MakeDoc(MessageProp, <<"message">>, <<>>, "props", TRUE),
      SetSchema(MakeDoc(MessageProp, <<"message">>, <<"index">>, "pair", FALSE),
                "constructor", Entity(<<KV("next", SchemaRef("constructor"))>>, <<>>)) }

----------------------------------------------------------------------------
(* Rule lists the operations are called with *)

Rename(from, to) == [from |-> from, to |-> to]

\* one rename, a rename onto an existing entity, a chain, a swap, a rule
\* for an entity that does not exist, two rules for one entity
RenameLists ==
    { <<Rename("Err", "Failure")>>,
      <<Rename("Asset", "Err")>>,
      <<Rename("Err", "Asset"), Rename("Asset", "Item")>>,
      <<Rename("Err", "Asset"), Rename("Asset", "Err")>>,
      <<Rename("Missing", "Gone")>>,
      <<Rename("Holder", "Box"), Rename("Holder", "Owner")>> }

FieldRenames(schemaName, fieldRenames) ==
    [schemaName |-> schemaName, fieldRenames |-> fieldRenames]

\* a new name, an existing name, the same name, an entity that does not
\* exist, two entries for one entity, a renamed pointer property
FieldRenameLists ==
    { <<FieldRenames("Asset", <<Rename("index", "id")>>)>>,
      <<FieldRenames("Asset", <<Rename("index", "name")>>)>>,
      <<FieldRenames("Asset", <<Rename("name", "name")>>)>>,
      <<FieldRenames("Missing", <<Rename("index", "id")>>)>>,
      <<FieldRenames("Asset", <<Rename("index", "id")>>),
        FieldRenames("Asset", <<Rename("name", "title")>>)>>,
      <<FieldRenames("Holder", <<Rename("err", "error"), Rename("nosuch", "x")>>)>> }

FieldsToRemoveLists == { <<"message">>, <<"index", "name">>, <<"nosuch">> }

Required(schemaName, fieldName, makeRequired) ==
    [schemaName |-> schemaName, fieldName |-> fieldName, makeRequired |-> makeRequired]

RequiredTransformLists ==
    { <<Required("Asset", <<"index">>, FALSE)>>,
      <<Required("Asset", <<"name">>, TRUE)>>,
      <<Required("Err", <<"message">>, FALSE)>>,
      <<Required("Asset", <<"nosuch">>, TRUE)>>,
      <<Required("Asset", <<"index", "name">>, FALSE), Required("Holder", <<"asset">>, TRUE)>>,
      <<Required("Missing", <<"index">>, TRUE)>> }

----------------------------------------------------------------------------
(* Documents and configurations of the pipeline.  The documents are         *)
(* OpenAPI 3 documents (no swagger key), for which extractInlineSchemas and *)
(* convertToOpenAPI3 return at once.                                        *)

ByteString == Obj(<<KV("type", Str("string")), KV("format", Str("byte"))>>)

FormatParameter ==
    Obj(<<KV("name", Str("format")), KV("in", Str("query")),
          KV("schema", Obj(<<KV("type", Str("string")),
                             KV("enum", StrArr(<<"json", "msgpack">>))>>))>>)

RoundParameter ==
    Obj(<<KV("name", Str("round")), KV("in", Str("query")),
          KV("schema", Typed("integer"))>>)

\* an inline response schema
StatusSchema ==
    Obj(<<KV("type", Str("object")),
          KV("properties", Obj(<<KV("round", Typed("integer")),
                                 KV("asset-index", Typed("integer"))>>))>>)

StatusPath ==
    Obj(<<KV("get", Obj(<<
        KV("tags", StrArr(<<"public">>)),
        KV("parameters", Arr(<<FormatParameter, RoundParameter>>)),
        KV("responses", Obj(<<
            KV("200", Obj(<<KV("content", Obj(<<
                KV(JsonType, Obj(<<KV("schema", StatusSchema)>>)),
                KV(MsgpackType, Media("Asset"))>>))>>)),
            KV("default", Obj(<<KV("$ref",
                Str("#/components/responses/NodeStatusResponse"))>>))>>))>>))>>)

TealValueSchema ==
    Entity(<<KV("bytes", ByteString),
             KV("uint", Obj(<<KV("type", Str("integer")),
                              KV("x-algorand-format", Str("uint64"))>>))>>, <<"uint">>)

AvmValueSchema == Entity(<<KV("bytes", ByteString)>>, <<>>)

BlockSchema ==
    Entity(<<KV("genesis-hash", ByteString), KV("round", Typed("integer")),
             KV("sourcemap", Typed("object"))>>, <<"round">>)

LightBlockHeaderProofSchema == Entity(<<KV("idx", Typed("integer"))>>, <<"idx">>)

PipelineDoc(assetRequired) ==
    Obj(<<KV("openapi", Str("3.0.0")),
          KV("paths", Obj(<<KV("/v2/status", StatusPath)>>)),
          KV("components", Obj(<<
              KV("schemas", Obj(<<
                  KV("Asset", AssetSchema(assetRequired)),
                  KV("TealValue", TealValueSchema),
                  KV("AvmValue", AvmValueSchema),
                  KV("Block", BlockSchema),
                  KV("LightBlockHeaderProof", LightBlockHeaderProofSchema),
                  KV("Err", Entity(MessageProp, <<"message">>))>>)),
              KV("responses", Obj(<<KV("NodeStatusResponse", Obj(<<
                  KV("content", Obj(<<KV(JsonType, Media("Err")),
                                      KV(MsgpackType, Media("Err"))>>))>>))>>))>>))>>)

PipelineDocs ==
    { PipelineDoc(<<"index">>), PipelineDoc(<<"name", "index">>), PipelineDoc(<<>>) }

\* a configuration with every optional list absent; an absent list is <<>>,
\* an absent fixedLengthByteFields is <<>> and a given one <<fields>>
NoConfig ==
    [schemaRenames |-> <<>>, schemaFieldRenames |-> <<>>, removeSchemaFields |-> <<>>,
     fixedLengthByteFields |-> <<>>, makeAllFieldsRequired |-> FALSE,
     requiredFieldTransforms |-> <<>>, fieldTransforms |-> <<>>,
     vendorExtensionTransforms |-> <<>>, msgpackOnlyEndpoints |-> <<>>,
     jsonOnlyEndpoints |-> <<>>, customSchemas |-> <<>>,
     schemaVendorExtensions |-> <<>>, endpointTagTransforms |-> <<>>,
     outputPath |-> "specs/out.oas3.json"]

FieldTransform(fieldName, schemaName, removeItems, addItems) ==
    [fieldName |-> fieldName, schemaName |-> schemaName, removeItems |-> removeItems,
     addItems |-> addItems]

SourceMapSchema ==
    Obj(<<KV("type", Str("object")),
          KV("required", StrArr(<<"version">>)),
          KV("properties", Obj(<<KV("version", Typed("integer")),
                                 KV("round", Typed("integer"))>>))>>)

CustomSchema(name, schema, linkToProperties) ==
    [name |-> name, schema |-> schema, linkToProperties |-> linkToProperties]

\* the structural rename of the Asset scenario
IndexToId == <<FieldRenames("Asset", <<Rename("index", "id")>>)>>

\* a configuration in the manner of ALGOD_CONFIG
AlgodLike ==
    [NoConfig EXCEPT
        !.requiredFieldTransforms = <<Required("Block", <<"round">>, FALSE)>>,
        !.fieldTransforms =
            <<FieldTransform("bytes", "TealValue", <<"format">>, <<>>),
              FieldTransform("round", "", <<>>,
                             <<KV("x-algokit-field-rename", Str("rnd"))>>),
              FieldTransform("format.schema", "", <<>>, <<KV("description", Str("fmt"))>>)>>,
        !.vendorExtensionTransforms = UINT64_TRANSFORMS,
        !.msgpackOnlyEndpoints = <<[path |-> "/v2/status", methods |-> << <<"get">> >>],
                                   [path |-> "/v2/none", methods |-> <<>>]>>,
        !.customSchemas = <<CustomSchema("SourceMap", SourceMapSchema, <<"sourcemap">>)>>,
        !.schemaVendorExtensions =
            <<[schemaName |-> "Block", extension |-> "x-algokit-box-reference",
               value |-> Bool(TRUE)]>>,
        !.endpointTagTransforms =
            <<[path |-> "/v2/status", methods |-> << <<"get">> >>, addTags |-> <<"skip">>,
               removeTags |-> <<>>]>>]

\* a configuration in the manner of KMD_CONFIG
KmdLike ==
    [NoConfig EXCEPT
        !.schemaRenames = <<Rename("LightBlockHeaderProof", "Proof")>>,
        !.schemaFieldRenames = <<FieldRenames("Block", <<Rename("round", "rnd")>>)>>,
        !.removeSchemaFields = <<"message">>,
        !.makeAllFieldsRequired = TRUE,
        !.requiredFieldTransforms = <<Required("TealValue", <<"bytes">>, FALSE)>>,
        !.vendorExtensionTransforms = UINT64_TRANSFORMS,
        !.jsonOnlyEndpoints = <<[path |-> "/v2/status", methods |-> <<>>]>>,
        !.fixedLengthByteFields = << <<>> >>,
        !.endpointTagTransforms =
            <<[path |-> "/v2/status", methods |-> <<>>, addTags |-> <<>>,
               removeTags |-> <<"public">>]>>]

\* a configuration with every stage configured
FullConfig ==
    [AlgodLike EXCEPT
        !.schemaRenames = <<Rename("LightBlockHeaderProof", "Proof")>>,
        !.schemaFieldRenames = <<FieldRenames("Block", <<Rename("round", "rnd")>>)>>,
        !.removeSchemaFields = <<"message">>,
        !.makeAllFieldsRequired = TRUE,
        !.jsonOnlyEndpoints = <<[path |-> "/v2/status", methods |-> <<>>]>>]

Configs ==
    { NoConfig,
      FullConfig,
      [NoConfig EXCEPT !.schemaFieldRenames = IndexToId],
      [AlgodLike EXCEPT !.schemaFieldRenames = IndexToId],
      AlgodLike,
      KmdLike,
      [NoConfig EXCEPT !.schemaFieldRenames =
          <<FieldRenames("LightBlockHeaderProof", <<Rename("idx", "index")>>)>>],
      [NoConfig EXCEPT !.schemaFieldRenames = IndexToId, !.removeSchemaFields = <<"id">>],
      [NoConfig EXCEPT !.schemaFieldRenames =
          <<FieldRenames("Asset", <<Rename("name", "title")>>)>> \o IndexToId],
      [NoConfig EXCEPT !.schemaFieldRenames = IndexToId,
                       !.requiredFieldTransforms = <<Required("Asset", <<"name">>, FALSE)>>],
      [NoConfig EXCEPT !.schemaFieldRenames = IndexToId,
                       !.customSchemas =
                           <<CustomSchema("SourceMap", SourceMapSchema, <<"id">>)>>],
      [NoConfig EXCEPT !.schemaFieldRenames = IndexToId,
                       !.fieldTransforms =
                           <<FieldTransform("id", "", <<"x-algokit-bigint">>, <<>>)>>],
      [NoConfig EXCEPT !.schemaFieldRenames = IndexToId,
                       !.schemaRenames = <<Rename("Asset", "AssetInfo")>>],
      [NoConfig EXCEPT !.schemaFieldRenames =
          <<FieldRenames("Asset", <<Rename("index", "id"), Rename("id", "uid")>>)>>],
      [NoConfig EXCEPT !.schemaFieldRenames =
          <<FieldRenames("Asset", <<Rename("index", "index")>>)>>],
      [NoConfig EXCEPT !.schemaFieldRenames = IndexToId,
                       !.vendorExtensionTransforms =
                           <<[sourceProperty |-> "type", sourceValue |-> "integer",
                              targetProperty |-> "x-algokit-bigint",
                              targetValue |-> Bool(FALSE), removeSource |-> FALSE]>>],
      [NoConfig EXCEPT !.schemaFieldRenames = IndexToId,
                       !.schemaVendorExtensions =
                           <<[schemaName |-> "Asset", extension |-> "required",
                              value |-> StrArr(<<"name">>)]>>],
      [NoConfig EXCEPT !.customSchemas =
                           <<CustomSchema("SourceMap", SourceMapSchema, <<"sourcemap">>)>>,
                       !.schemaVendorExtensions =
                           <<[schemaName |-> "SourceMap", extension |-> "x-algokit-source-map",
                              value |-> Bool(TRUE)]>>],
      [NoConfig EXCEPT !.makeAllFieldsRequired = TRUE,
                       !.customSchemas =
                           <<CustomSchema("SourceMap", SourceMapSchema, <<"sourcemap">>)>>,
                       !.requiredFieldTransforms =
                           <<Required("TealValue", <<"bytes", "uint">>, FALSE),
                             Required("Block", <<"round", "nosuch">>, FALSE),
                             Required("TealValue", <<"uint">>, TRUE)>>] }

----------------------------------------------------------------------------
(* Documents and rule lists of the single rules: a field named account-id   *)
(* as a property of two entities, as a declared parameter and as an inline  *)
(* parameter; format parameters and encoding tables of several shapes;      *)
(* pointers to entities that exist and to one that does not.                *)

GoType == KV("x-go-type", Str("basics.Address"))

AccountIdProperty == Obj(<<KV("type", Str("string")), GoType>>)

\* the declared parameter and the inline one
AccountIdParameter(in) ==
    Obj(<<KV("name", Str("account-id")), KV("in", Str(in)), GoType,
          KV("schema", Typed("string"))>>)

\* the format parameter: with both values, with the msgpack value alone and
\* no default, without enum, in the manner of OpenAPI 2 (no schema key)
FormatParameterOf(kind) ==
    CASE kind = "both" -> FormatParameter
      [] kind = "single" ->
           Obj(<<KV("name", Str("format")), KV("in", Str("query")),
                 KV("schema", Obj(<<KV("type", Str("string")),
                                    KV("enum", StrArr(<<"msgpack">>))>>))>>)
      [] kind = "string" ->
           Obj(<<KV("name", Str("format")), KV("in", Str("query")),
                 KV("schema", Typed("string"))>>)
      [] kind = "flat" ->
           Obj(<<KV("name", Str("format")), KV("in", Str("query")),
                 KV("type", Str("string")),
                 KV("enum", StrArr(<<"json", "msgpack">>)),
                 KV("default", Str("json"))>>)

\* an encoding table: both encodings, or one of them
ContentOf(kind) ==
    CASE kind = "both" -> Obj(<<KV(JsonType, Media("Err")), KV(MsgpackType, Media("Asset"))>>)
      [] kind = "json" -> Obj(<<KV(JsonType, Media("Err"))>>)
      [] kind = "msgpack" -> Obj(<<KV(MsgpackType, Media("Asset"))>>)

\* an integer property marked as 64 bit in both ways, and a property with the
\* misspelt attribute of the indexer documents
Uint64Property ==
    Obj(<<KV("type", Str("integer")), KV("format", Str("uint64")),
          KV("x-algorand-format", Str("uint64"))>>)

MisspeltProperty ==
    Obj(<<KV("type", Str("string")), KV("x-algorand-foramt", Str("uint64"))>>)

RuleSchemas(ghost) ==
    Obj(<<KV("Asset", Entity(<<KV("index", Uint64Property), KV("name", MisspeltProperty),
                               KV("account-id", AccountIdProperty)>>, <<"index">>)),
          KV("Err", Entity(MessageProp, <<"message">>)),
          KV("Holder", Entity(<<KV("err", SchemaRef("Err")), KV("asset", SchemaRef("Asset")),
                                KV("account-id", AccountIdProperty),
                                KV("ghost", SchemaRef(ghost))>>, <<"err">>))>>)

\* the format parameter of the operation: inline, or a pointer to the
\* declared one
RuleOperations(format, byRef, content, failContent) ==
    Obj(<<KV("get", Obj(<<
              KV("tags", StrArr(<<"public">>)),
              KV("parameters", Arr(<<
                  AccountIdParameter("query"),
                  IF byRef THEN Obj(<<KV("$ref", Str("#/components/parameters/format"))>>)
                  ELSE FormatParameterOf(format),
                  Obj(<<KV("$ref", Str("#/components/parameters/account-id"))>>)>>)),
              KV("responses", Obj(<<
                  KV("200", Obj(<<KV("description", Str("ok")),
                                  KV("content", ContentOf(content))>>)),
                  KV("default", SchemaRefResponse)>>))>>)),
          KV("post", Obj(
              (IF byRef
               THEN <<KV("parameters", Arr(<<
                        Obj(<<KV("$ref", Str("#/components/parameters/format"))>>)>>))>>
               ELSE <<>>) \o <<
              KV("requestBody", Obj(<<KV("content", ContentOf(failContent))>>)),
              KV("responses", Obj(<<
                  KV("default", SchemaRefResponse),
                  KV("404", Obj(<<KV("description", Str("not found"))>>)),
                  KV("200", Obj(<<KV("description", Str("ok"))>>))>>))>>))>>)

RuleDoc(format, byRef, content, failContent, ghost) ==
    Obj(<<KV("openapi", Str("3.0.0")),
          KV("paths", Obj(<<KV("/a", RuleOperations(format, byRef, content, failContent))>>)),
          KV("components", Obj(<<
              KV("schemas", RuleSchemas(ghost)),
              KV("parameters", Obj(<<KV("account-id", AccountIdParameter("path")),
                                     KV("format", FormatParameterOf(format))>>)),
              KV("responses", Obj(<<KV("Fail", Obj(<<
                  KV("description", Str("failure")),
                  KV("content", ContentOf(failContent))>>))>>))>>))>>)

RuleDocs ==
    { RuleDoc("both", FALSE, "both", "both", "Missing"),
      RuleDoc("single", FALSE, "json", "both", "Missing"),
      RuleDoc("string", TRUE, "msgpack", "json", "Missing"),
      RuleDoc("flat", TRUE, "both", "msgpack", "constructor") }

FilterEndpoint(path, methods) == [path |-> path, methods |-> methods]

\* the default method, two methods, a path that does not exist and a method
\* that does not exist
EndpointLists ==
    { <<FilterEndpoint("/a", <<>>)>>,
      <<FilterEndpoint("/a", << <<"get", "post">> >>)>>,
      <<FilterEndpoint("/none", <<>>), FilterEndpoint("/a", << <<"post", "put">> >>)>> }

EndpointTagTransform(path, methods, addTags, removeTags) ==
    [path |-> path, methods |-> methods, addTags |-> addTags, removeTags |-> removeTags]

\* a path that does not exist, a method that does not exist, a rule for a
\* missing path before one that applies, every method of a path
TagTransformLists ==
    { <<EndpointTagTransform("/none", <<>>, <<"skip">>, <<>>)>>,
      <<EndpointTagTransform("/a", << <<"put">> >>, <<"skip">>, <<"public">>)>>,
      <<EndpointTagTransform("/none", << <<"get">> >>, <<>>, <<"public">>),
        EndpointTagTransform("/a", << <<"get", "put">> >>, <<"skip">>, <<"public">>)>>,
      <<EndpointTagTransform("/a", <<>>, <<"public", "skip">>, <<>>)>> }

SIGNED_TXN_TRANSFORM ==
    [sourceProperty |-> "x-algorand-format", sourceValue |-> "SignedTransaction",
     targetProperty |-> "x-algokit-signed-txn", targetValue |-> Bool(TRUE),
     removeSource |-> TRUE]

BOX_REFERENCE_TRANSFORM ==
    [sourceProperty |-> "title", sourceValue |-> "BoxReference",
     targetProperty |-> "x-algokit-box-reference", targetValue |-> Bool(TRUE),
     removeSource |-> FALSE]

\* INDEXER_CONFIG.vendorExtensionTransforms
IndexerTransforms ==
    UINT64_TRANSFORMS \o <<SIGNED_TXN_TRANSFORM, BOX_REFERENCE_TRANSFORM,
                           [sourceProperty |-> "x-algorand-foramt", sourceValue |-> "uint64",
                            targetProperty |-> "x-algorand-format", targetValue |-> Str("uint64"),
                            removeSource |-> TRUE]>>

\* the rule that moves its source attribute, the two rules for 64 bit
\* integers, the rules of the indexer
VendorTransformLists == { <<UINT64_TRANSFORMS[1]>>, UINT64_TRANSFORMS, IndexerTransforms }

\* the rename maps of updateAllRefs: one entity, a chain, a swap, the name
\* of no entity, no entry
RefMaps ==
    { [name \in {"Err"} |-> "Failure"],
      [name \in {"Err", "Asset"} |-> IF name = "Err" THEN "Asset" ELSE "Item"],
      [name \in {"Err", "Asset"} |-> IF name = "Err" THEN "Asset" ELSE "Err"],
      [name \in {"Gone"} |-> "Lost"],
      [name \in {} |-> ""] }

\* one rule for account-id without owning entity, one with removal alone,
\* one scoped to an entity, one for a name no node carries, two rules
FieldTransformLists ==
    { <<FieldTransform("account-id", "", <<"x-go-type">>,
                       <<KV("x-algokit-field-rename", Str("account"))>>)>>,
      <<FieldTransform("account-id", "", <<"x-go-type", "nosuch">>, <<>>)>>,
      <<FieldTransform("account-id", "Asset", <<"x-go-type">>,
                       <<KV("x-algorand-format", Str("Address"))>>)>>,
      <<FieldTransform("nosuch", "", <<"type">>, <<KV("x-gone", Bool(TRUE))>>)>>,
      <<FieldTransform("account-id.schema", "", <<>>,
                       <<KV("x-algorand-format", Str("Address"))>>),
        FieldTransform("index", "Holder", <<"type">>, <<>>)>> }

----------------------------------------------------------------------------
(* The operations, applied one at a time to the document *)

\* a single run of process(), and no file written
NoTasks == [current |-> "process", parked |-> <<>>]

NoFiles == [path \in {} |-> EmptyObj]

MaxSteps == 2

\* the operations on the documents of the rules are applied to larger lists
\* of inputs, one after another up to this number
MaxRuleSteps == 1

StepBound == IF pc = "rules" THEN MaxRuleSteps ELSE MaxSteps

NoArg == <<>>

Applied(op, arg, r) ==
    /\ steps < StepBound
    /\ doc' = r.spec
    /\ pre' = doc
    /\ last' = [op |-> op, arg |-> arg, count |-> r.count]
    /\ steps' = steps + 1
    /\ UNCHANGED <<impl, tasks, files, shared, cfg, pc, run, source, out>>

RenameSchemas ==
    \E renames \in RenameLists :
        Applied("renameSchemas", renames,
                IF impl = "main" THEN renameSchemasMain(doc, renames)
                ELSE renameSchemas(doc, renames))

RenameSchemaFields ==
    \E rules \in FieldRenameLists :
        Applied("renameSchemaFields", rules,
                IF impl = "main" THEN renameSchemaFieldsMain(doc, rules)
                ELSE renameSchemaFields(doc, rules))

RemoveSchemaFields ==
    \E fields \in FieldsToRemoveLists :
        Applied("removeSchemaFields", fields,
                IF impl = "main" THEN removeSchemaFieldsMain(doc, fields)
                ELSE removeSchemaFields(doc, fields))

MakeAllFieldsRequired ==
    Applied("makeAllFieldsRequired", NoArg,
            IF impl = "main" THEN makeAllFieldsRequiredMain(doc)
            ELSE makeAllFieldsRequired(doc))

TransformRequiredFields ==
    \E rules \in RequiredTransformLists :
        Applied("transformRequiredFields", rules,
                IF impl = "main" THEN transformRequiredFieldsMain(doc, rules)
                ELSE transformRequiredFields(doc, rules))

\* the result of removeEmptySchemas, kept with the document as it was when
\* the deletion loop started
AppliedEmptySchemas(r) == Applied("removeEmptySchemas", <<r.cleaned>>, r)

RemoveEmptySchemas ==
    AppliedEmptySchemas(IF impl = "main" THEN removeEmptySchemasMain(doc)
                        ELSE removeEmptySchemas(doc))

Init ==
    /\ doc \in InitDocs
    /\ impl \in {"config", "main"}
    /\ pre = doc
    /\ last = [op |-> "none", arg |-> NoArg, count |-> 0]
    /\ steps = 0
    /\ cfg = NoConfig
    /\ pc = "operations"
    /\ run = 0
    /\ source = doc
    /\ out = <<>>
    /\ tasks = NoTasks
    /\ shared = {}
    /\ files = NoFiles

Next ==
    \/ RenameSchemas
    \/ RenameSchemaFields
    \/ RemoveSchemaFields
    \/ MakeAllFieldsRequired
    \/ TransformRequiredFields
    \/ RemoveEmptySchemas

Spec == Init /\ [][Next]_vars

----------------------------------------------------------------------------
(* OpenAPIProcessor.process, run MaxRuns times, each run on the document    *)
(* the run before it saved                                                   *)

MaxRuns == 2

\* a stage that hands over to validation whatever stage was to follow
StageCutShort(at, next, configured, arg, r) ==
    /\ pc = at
    /\ doc' = IF configured THEN r.spec ELSE doc
    /\ pre' = doc
    /\ last' = IF configured THEN [op |-> at, arg |-> arg, count |-> r.count]
               ELSE [op |-> "skipped", arg |-> at, count |-> 0]
    /\ pc' = IF at = "renameSchemaFields" THEN "validate" ELSE next
    /\ UNCHANGED <<impl, tasks, files, shared, steps, cfg, run, source, out>>

\* createCustomSchema: the custom schemas it stores, those whose name the
\* document does not hold when their turn comes
Inserted(spec, customSchemas) ==
    {i \in 1..Len(customSchemas) :
        /\ ~Truthy(Get(Schemas(spec), customSchemas[i].name))
        /\ \A j \in 1..(i - 1) : customSchemas[j].name # customSchemas[i].name}

\* spec.components.schemas[schemaName] = schemaDefinition stores the object
\* of the configuration itself: what a later stage writes into the entity
\* of the document is written into customSchema.schema
Mirrored(config, spec, positions) ==
    [config EXCEPT !.customSchemas =
        [i \in 1..Len(config.customSchemas) |->
            IF i \in positions
            THEN [config.customSchemas[i] EXCEPT
                     !.schema = Get(Schemas(spec), config.customSchemas[i].name)]
            ELSE config.customSchemas[i]]]

\* a stage of process() at position at: it ran, with result r, or its
\* configuration is absent and it is passed over
Stage(at, next, configured, arg, r) ==
    /\ pc = at
    /\ doc' = IF configured THEN r.spec ELSE doc
    /\ pre' = doc
    /\ last' = IF configured THEN [op |-> at, arg |-> arg, count |-> r.count]
               ELSE [op |-> "skipped", arg |-> at, count |-> 0]
    /\ pc' = next
    /\ cfg' = Mirrored(cfg, doc', shared)
    /\ shared' = IF at = "createCustomSchema" /\ configured
                 THEN Inserted(doc, cfg.customSchemas) ELSE shared
    /\ UNCHANGED <<impl, tasks, files, steps, run, source, out>>

\* fetchSpec, extractInlineSchemas, convertToOpenAPI3: the document is
\* fetched, or the fetch throws (the response is not ok, the text is not
\* JSON) and process() rethrows
FetchSpec ==
    /\ pc = "fetchSpec"
    /\ source' = doc
    /\ pre' = doc
    /\ last' = [op |-> "fetchSpec", arg |-> NoArg, count |-> 0]
    /\ pc' \in {"renameSchemas", "failed"}
    /\ shared' = {}
    /\ UNCHANGED <<doc, impl, tasks, files, steps, cfg, run, out>>

StageRenameSchemas ==
    Stage("renameSchemas", "renameSchemaFields", Len(cfg.schemaRenames) > 0,
          cfg.schemaRenames, renameSchemas(doc, cfg.schemaRenames))

StageRenameSchemaFields ==
    Stage("renameSchemaFields", "removeSchemaFields", Len(cfg.schemaFieldRenames) > 0,
          cfg.schemaFieldRenames, renameSchemaFields(doc, cfg.schemaFieldRenames))

StageRemoveSchemaFields ==
    Stage("removeSchemaFields",
          IF Len(cfg.removeSchemaFields) > 0 THEN "removeEmptySchemas"
          ELSE "fixMissingDescriptions",
          Len(cfg.removeSchemaFields) > 0,
          cfg.removeSchemaFields, removeSchemaFields(doc, cfg.removeSchemaFields))

StageEmptySchemas(r) ==
    Stage("removeEmptySchemas", "fixMissingDescriptions", TRUE, <<r.cleaned>>, r)

StageRemoveEmptySchemas == StageEmptySchemas(removeEmptySchemas(doc))

StageFixMissingDescriptions ==
    Stage("fixMissingDescriptions", "fixPydanticRecursionError", TRUE, NoArg,
          fixMissingDescriptions(doc))

StageFixPydanticRecursionError ==
    Stage("fixPydanticRecursionError", "fixFieldNaming", TRUE, NoArg,
          fixPydanticRecursionError(doc))

StageFixFieldNaming ==
    Stage("fixFieldNaming", "fixTealValueBytes", TRUE, NoArg, fixFieldNaming(doc))

StageFixTealValueBytes ==
    Stage("fixTealValueBytes", "fixBigInt", TRUE, NoArg, fixTealValueBytes(doc))

StageFixBigInt ==
    Stage("fixBigInt", "fixFixedLengthByteFields", TRUE, NoArg, fixBigInt(doc))

\* this.config.fixedLengthByteFields ?? FIXED_LENGTH_BYTE_FIELDS
fixedByteFields ==
    IF cfg.fixedLengthByteFields = <<>> THEN FIXED_LENGTH_BYTE_FIELDS
    ELSE cfg.fixedLengthByteFields[1]

StageFixFixedLengthByteFields ==
    Stage("fixFixedLengthByteFields", "makeAllFieldsRequired", Len(fixedByteFields) > 0,
          fixedByteFields, fixFixedLengthByteFields(doc, fixedByteFields))

StageMakeAllFieldsRequired ==
    Stage("makeAllFieldsRequired", "transformRequiredFields", cfg.makeAllFieldsRequired,
          NoArg, makeAllFieldsRequired(doc))

StageTransformRequiredFields ==
    Stage("transformRequiredFields", "transformProperties",
          Len(cfg.requiredFieldTransforms) > 0, cfg.requiredFieldTransforms,
          transformRequiredFields(doc, cfg.requiredFieldTransforms))

StageTransformProperties ==
    Stage("transformProperties", "transformVendorExtensions",
          Len(cfg.fieldTransforms) > 0, cfg.fieldTransforms,
          transformProperties(doc, cfg.fieldTransforms))

StageVendorExtensions(r) ==
    Stage("transformVendorExtensions", "enforceMsgpack",
          Len(cfg.vendorExtensionTransforms) > 0, <<r.counts>>, r)

StageTransformVendorExtensions ==
    StageVendorExtensions(transformVendorExtensions(doc, cfg.vendorExtensionTransforms))

StageEnforceMsgpack ==
    Stage("enforceMsgpack", "enforceJson", Len(cfg.msgpackOnlyEndpoints) > 0,
          cfg.msgpackOnlyEndpoints,
          enforceEndpointFormat(doc, cfg.msgpackOnlyEndpoints, "msgpack"))

StageEnforceJson ==
    Stage("enforceJson", "createCustomSchema", Len(cfg.jsonOnlyEndpoints) > 0,
          cfg.jsonOnlyEndpoints,
          enforceEndpointFormat(doc, cfg.jsonOnlyEndpoints, "json"))

StageCreateCustomSchema ==
    Stage("createCustomSchema",
          IF Len(cfg.customSchemas) > 0 THEN "linkSchemaToProperties"
          ELSE "addSchemaVendorExtensions",
          Len(cfg.customSchemas) > 0, cfg.customSchemas,
          createCustomSchemas(doc, cfg.customSchemas, 1, 0))

StageLinkSchemaToProperties ==
    Stage("linkSchemaToProperties", "addSchemaVendorExtensions", TRUE, cfg.customSchemas,
          linkSchemaToProperties(doc, cfg.customSchemas))

StageAddSchemaVendorExtensions ==
    Stage("addSchemaVendorExtensions", "transformEndpointTags",
          Len(cfg.schemaVendorExtensions) > 0, cfg.schemaVendorExtensions,
          addSchemaVendorExtensions(doc, cfg.schemaVendorExtensions))

StageTransformEndpointTags ==
    Stage("transformEndpointTags", "validate", Len(cfg.endpointTagTransforms) > 0,
          cfg.endpointTagTransforms,
          transformEndpointTags(doc, cfg.endpointTagTransforms))

\* SwaggerParser.validate, a library outside the repository, given a copy of
\* the document: it returns or it throws, and process() rethrows
Validate ==
    /\ pc = "validate"
    /\ pc' \in {"saveSpec", "failed"}
    /\ pre' = doc
    /\ last' = [op |-> "validate", arg |-> NoArg, count |-> 0]
    /\ UNCHANGED <<doc, impl, tasks, files, shared, steps, cfg, run, source, out>>

\* one path for every processor
outputPathShared(config) == "specs/out.oas3.json"

\* saveSpec: this.config.outputPath
outputPath(config) == config.outputPath

\* writeFile(path, content): the file at path is created or replaced
writeFile(path, content) ==
    [f \in DOMAIN files \cup {path} |-> IF f = path THEN content ELSE files[f]]

\* a writer that does not wait for the validation
SaveSpecUnvalidated ==
    /\ pc \in {"validate", "saveSpec"}
    /\ out' = Append(out, doc)
    /\ files' = writeFile(outputPath(cfg), doc)
    /\ run' = run + 1
    /\ pc' = IF run < MaxRuns THEN "fetchSpec" ELSE "done"
    /\ pre' = doc
    /\ last' = [op |-> "saveSpec", arg |-> NoArg, count |-> 0]
    /\ UNCHANGED <<doc, impl, tasks, shared, steps, cfg, source>>

\* saveSpec; the next run, if any, fetches what this one saved
SaveSpec ==
    /\ pc = "saveSpec"
    /\ out' = Append(out, doc)
    /\ files' = writeFile(outputPath(cfg), doc)
    /\ run' = run + 1
    /\ pc' = IF run < MaxRuns THEN "fetchSpec" ELSE "done"
    /\ pre' = doc
    /\ last' = [op |-> "saveSpec", arg |-> NoArg, count |-> 0]
    /\ UNCHANGED <<doc, impl, tasks, shared, steps, cfg, source>>

InitPipeline ==
    /\ doc \in PipelineDocs
    /\ cfg \in Configs
    /\ impl = "config"
    /\ pre = doc
    /\ last = [op |-> "none", arg |-> NoArg, count |-> 0]
    /\ steps = 0
    /\ pc = "fetchSpec"
    /\ run = 1
    /\ source = doc
    /\ out = <<>>
    /\ tasks = NoTasks
    /\ shared = {}
    /\ files = NoFiles

NextPipeline ==
    \/ FetchSpec
    \/ StageRenameSchemas
    \/ StageRenameSchemaFields
    \/ StageRemoveSchemaFields
    \/ StageRemoveEmptySchemas
    \/ StageFixMissingDescriptions
    \/ StageFixPydanticRecursionError
    \/ StageFixFieldNaming
    \/ StageFixTealValueBytes
    \/ StageFixBigInt
    \/ StageFixFixedLengthByteFields
    \/ StageMakeAllFieldsRequired
    \/ StageTransformRequiredFields
    \/ StageTransformProperties
    \/ StageTransformVendorExtensions
    \/ StageEnforceMsgpack
    \/ StageEnforceJson
    \/ StageCreateCustomSchema
    \/ StageLinkSchemaToProperties
    \/ StageAddSchemaVendorExtensions
    \/ StageTransformEndpointTags
    \/ Validate
    \/ SaveSpec

Pipeline == InitPipeline /\ [][NextPipeline]_vars

----------------------------------------------------------------------------
(* The runs of processAlgorandSpecs: Promise.all over three calls of         *)
(* process(), each on its own OpenAPIProcessor.  One run executes at a time; *)
(* at an await (the fetch, the validation, the write) it is suspended with   *)
(* its local state and another run is resumed.                               *)

\* the local state of a run: the document, the configuration of its
\* processor and where it stands
Task(spec, config) ==
    [doc |-> spec, cfg |-> config, pc |-> "fetchSpec", source |-> spec, pre |-> spec,
     last |-> [op |-> "none", arg |-> NoArg, count |-> 0], shared |-> {}]

AlgodTask(spec) == Task(spec, [AlgodLike EXCEPT !.outputPath = "specs/algod.oas3.json"])

IndexerTask == Task(PipelineDoc(<<"name", "index">>),
                    [FullConfig EXCEPT !.outputPath = "specs/indexer.oas3.json"])

KmdTask == Task(PipelineDoc(<<>>), [KmdLike EXCEPT !.outputPath = "specs/kmd.oas3.json"])

\* where a run stands while it waits for a promise, or after it returned
AwaitPoints == {"fetchSpec", "validate", "saveSpec", "done"}

\* the run that executes is suspended at an await or has returned, and the
\* suspended run t goes on; a run that threw has rejected Promise.all, and
\* main() has ended the process
Resume ==
    \E t \in DOMAIN tasks.parked :
        /\ pc \in AwaitPoints
        /\ tasks.parked[t].pc \in AwaitPoints \ {"done"}
        /\ doc' = tasks.parked[t].doc
        /\ cfg' = tasks.parked[t].cfg
        /\ pc' = tasks.parked[t].pc
        /\ source' = tasks.parked[t].source
        /\ pre' = tasks.parked[t].pre
        /\ last' = tasks.parked[t].last
        /\ shared' = tasks.parked[t].shared
        /\ tasks' = [current |-> t,
                     parked |-> [n \in (DOMAIN tasks.parked \ {t}) \cup {tasks.current} |->
                                    IF n = tasks.current
                                    THEN [doc |-> doc, cfg |-> cfg, pc |-> pc,
                                          source |-> source, pre |-> pre, last |-> last,
                                          shared |-> shared]
                                    ELSE tasks.parked[n]]]
        /\ UNCHANGED <<impl, steps, run, out, files>>

InitParallel ==
    /\ \E spec \in PipelineDocs :
          /\ doc = spec
          /\ tasks = [current |-> "algod",
                      parked |-> [n \in {"indexer", "kmd"} |->
                                     IF n = "indexer" THEN IndexerTask ELSE KmdTask]]
    /\ cfg = AlgodTask(doc).cfg
    /\ impl = "config"
    /\ pre = doc
    /\ last = [op |-> "none", arg |-> NoArg, count |-> 0]
    /\ steps = 0
    /\ pc = "fetchSpec"
    /\ run = MaxRuns
    /\ source = doc
    /\ out = <<>>
    /\ files = NoFiles
    /\ shared = {}

NextParallel == NextPipeline \/ Resume

Parallel == InitParallel /\ [][NextParallel]_vars

----------------------------------------------------------------------------
(* The rules applied one at a time to the documents of the single rules *)

TransformProperties ==
    \E transforms \in FieldTransformLists :
        Applied("transformProperties", transforms, transformProperties(doc, transforms))

\* src/config.ts and src/main.ts enforceEndpointFormat, which are the same
EnforceEndpointFormat ==
    \E endpoints \in EndpointLists, targetFormat \in {"json", "msgpack"} :
        Applied("enforceEndpointFormat", <<endpoints, targetFormat>>,
                enforceEndpointFormat(doc, endpoints, targetFormat))

\* src/config.ts updateAllRefs; updateRefs of src/main.ts renameSchemas is the
\* same rewriting of the same maps, without the count
UpdateAllRefs ==
    \E oldToNew \in RefMaps :
        Applied("updateAllRefs", <<oldToNew>>, updateAllRefs(doc, oldToNew))

\* src/config.ts transformEndpointTags; src/main.ts transformEndpointTags
\* visits the same operations rule by rule
TransformEndpointTags ==
    \E transforms \in TagTransformLists :
        Applied("transformEndpointTags", transforms, transformEndpointTags(doc, transforms))

\* src/config.ts transformVendorExtensions
TransformVendorExtensions ==
    \E transforms \in VendorTransformLists :
        Applied("transformVendorExtensions", transforms,
                transformVendorExtensions(doc, transforms))

\* src/config.ts deepTraverse with a visitor that records its calls
DeepTraverse ==
    Applied("deepTraverse", NoArg,
            Changed(Traverse(doc, [name |-> "log", skip |-> {}], <<>>)))

\* the keys and indices under which the visitor returns "skip": a map of
\* every operation, a sequence, an entity and a first element, a key that no
\* map has
SkipSets ==
    { {Str("responses")}, {Str("parameters")}, {Str("Asset"), Num(0)}, {Str("nosuch")} }

\* src/config.ts deepTraverse with a visitor that returns "skip" for some nodes
DeepTraverseSkip ==
    \E skip \in SkipSets :
        Applied("deepTraverseSkip", <<skip>>,
                Changed(Traverse(doc, [name |-> "log", skip |-> skip], <<>>)))

InitRules ==
    /\ doc \in RuleDocs
    /\ impl \in {"config", "main"}
    /\ pre = doc
    /\ last = [op |-> "none", arg |-> NoArg, count |-> 0]
    /\ steps = 0
    /\ cfg = NoConfig
    /\ pc = "rules"
    /\ run = 0
    /\ source = doc
    /\ out = <<>>
    /\ tasks = NoTasks
    /\ shared = {}
    /\ files = NoFiles

NextRules ==
    \/ TransformProperties
    \/ UpdateAllRefs
    \/ EnforceEndpointFormat
    \/ TransformEndpointTags
    \/ RenameSchemaFields
    \/ TransformRequiredFields
    \/ DeepTraverse
    \/ DeepTraverseSkip
    \/ TransformVendorExtensions

Rules == InitRules /\ [][NextRules]_vars

----------------------------------------------------------------------------
(* Pointers and required sets of a document *)

\* every pointer into the entity table under n: <<path, entity name>>
RECURSIVE RefsIn(_, _)
RefsIn(n, path) ==
    IF ~IsObject(n) THEN {}
    ELSE (IF IsSchemaRef(n) THEN {<<path, RefName(n)>>} ELSE {})
         \cup UNION {RefsIn(Child(n, i), Append(path, ChildKey(n, i))) :
                        i \in 1..NumChildren(n)}

Refs(spec) == RefsIn(spec, <<>>)

NoDangling(spec) == \A r \in Refs(spec) : Has(Schemas(spec), r[2])

\* the paths of the maps under n that have the key k
RECURSIVE PathsWithKey(_, _, _)
PathsWithKey(n, path, k) ==
    IF ~IsObject(n) THEN {}
    ELSE (IF Has(n, k) THEN {path} ELSE {})
         \cup UNION {PathsWithKey(Child(n, i), Append(path, ChildKey(n, i)), k) :
                        i \in 1..NumChildren(n)}

EntityNames(spec) == SeqToSet(SchemaNames(spec))

EntityOf(spec, name) == Get(Schemas(spec), name)

NoEmptyRequired(spec) ==
    \A name \in EntityNames(spec) : Get(EntityOf(spec, name), "required") # Arr(<<>>)

RequiredWithinProperties(spec) ==
    \A name \in EntityNames(spec) :
        LET required == Get(EntityOf(spec, name), "required")
        IN IsArr(required) =>
               \A i \in 1..Len(required.arr) :
                   /\ IsStr(required.arr[i])
                   /\ Has(Get(EntityOf(spec, name), "properties"), required.arr[i].str)

\* the entities removeEmptySchemas deleted
Deleted == KeySet(Schemas(pre)) \ KeySet(Schemas(doc))

\* is the node a pointer to an entity of spec with an empty properties map
PointsToEmpty(spec, node) ==
    /\ IsObject(node)
    /\ IsSchemaRef(node)
    /\ HasEmptyProperties(EntityOf(spec, RefName(node)))

----------------------------------------------------------------------------
(* C3 *)

\* the names an entity may carry after the rename: the targets of the rules
\* naming it, or its own name when no rule names it or it does not exist
RenameTargets(renames, name) ==
    LET rules == {i \in 1..Len(renames) : renames[i].from = name}
    IN IF Has(Schemas(pre), name) /\ rules # {}
       THEN {renames[i].to : i \in rules}
       ELSE {name}

\* where a pointer stands after the rename: inside an entity the entity's key
\* is renamed with it
RenamedPaths(renames, path) ==
    IF Len(path) >= 3 /\ path[1] = "components" /\ path[2] = "schemas"
    THEN {<<"components", "schemas", k>> \o SubSeq(path, 4, Len(path)) :
             k \in RenameTargets(renames, path[3])}
    ELSE {path}

\* C3: when no pointer dangles before renameSchemas, none dangles after it, and
\* every pointer then names the new key of the entity it named (its own key
\* when the entity is not renamed), a key of the entity table
C3_RenameKeepsPointersResolved ==
    (last.op = "renameSchemas" /\ NoDangling(pre)) =>
        /\ NoDangling(doc)
        /\ \A r \in Refs(pre) :
               \E path \in RenamedPaths(last.arg, r[1]) :
               \E name \in RenameTargets(last.arg, r[2]) :
                   /\ <<path, name>> \in Refs(doc)
                   /\ Has(Schemas(doc), name)

\* a rename that renamed an entity some pointer named
C3_Witness ==
    /\ last.op = "renameSchemas"
    /\ NoDangling(pre)
    /\ last.count > 0
    /\ \E r \in Refs(pre) : r[2] \notin RenameTargets(last.arg, r[2])
    /\ Refs(doc) # Refs(pre)

----------------------------------------------------------------------------
(* C4 *)

\* C4: removeEmptySchemas deletes the empty entities only after the reference
\* cleanup (they are still in the table of the cleaned document), and once
\* they are deleted no pointer of the document names a deleted entity
C4_NoPointerToDeletedEntity ==
    last.op = "removeEmptySchemas" =>
        /\ \A name \in Deleted : Has(Schemas(last.arg[1]), name)
        /\ \A r \in Refs(doc) : r[2] \notin Deleted

----------------------------------------------------------------------------
(* C5 *)

\* the request and response bodies of the document before the operation whose
\* content table has an entry pointing to an empty entity
BodiesOfEmpty ==
    {path \in PathsWithKey(pre, <<>>, "content") :
        LET content == Get(GetIn(pre, path), "content")
        IN /\ IsObj(content)
           /\ \E i \in 1..Len(content.obj) :
                  PointsToEmpty(pre, Get(content.obj[i].v, "schema"))}

\* C5: after removeEmptySchemas the whole content table of every such body is
\* the empty map
C5_ContentTableEmptied ==
    last.op = "removeEmptySchemas" =>
        \A path \in BodiesOfEmpty : Get(GetIn(doc, path), "content") = EmptyObj

----------------------------------------------------------------------------
(* C6 *)

\* the members of an allOf list that are not pointers to an empty entity
KeptMembers(allOf) == SelectSeq(allOf.arr, LAMBDA item : ~PointsToEmpty(pre, item))

\* the allOf lists, outside the deleted entities, that had such a pointer
AllOfWithEmpty ==
    {path \in PathsWithKey(pre, <<>>, "allOf") :
        LET allOf == Get(GetIn(pre, path), "allOf")
        IN /\ IsArr(allOf)
           /\ Len(KeptMembers(allOf)) < Len(allOf.arr)
           /\ ~(Len(path) >= 3 /\ path[1] = "components" /\ path[2] = "schemas"
                /\ path[3] \in Deleted)}

\* C6: after removeEmptySchemas the members that pointed to an empty entity
\* are gone from every allOf list; a list left with one member, in a node
\* without properties, is replaced by that member's contents
C6_AllOfMembersRemoved ==
    last.op = "removeEmptySchemas" =>
        \A path \in AllOfWithEmpty :
            LET before == GetIn(pre, path)
                after == GetIn(doc, path)
                kept == KeptMembers(Get(before, "allOf"))
            IN IF Len(kept) = 1 /\ ~Has(before, "properties")
               THEN /\ ~Has(after, "allOf")
                    /\ \A k \in KeySet(kept[1]) : Get(after, k) = Get(kept[1], k)
               ELSE IF Len(kept) = 0 THEN ~Has(after, "allOf")
                    ELSE Get(after, "allOf") = Arr(kept)

----------------------------------------------------------------------------
(* C7 *)

\* C7: an entity whose required array held a name before transformRequiredFields
\* has, after it, a required array that still holds a name or no required key
C7_EmptiedRequiredIsDeleted ==
    last.op = "transformRequiredFields" =>
        \A name \in EntityNames(pre) :
            LET before == Get(EntityOf(pre, name), "required")
                after == Get(EntityOf(doc, name), "required")
            IN (IsArr(before) /\ Len(before.arr) > 0) =>
                   (IsUndef(after) \/ (IsArr(after) /\ Len(after.arr) > 0))

\* a makeRequired=false rule removed the last name of a required array
C7_Witness ==
    /\ last.op = "transformRequiredFields"
    /\ \E i \in 1..Len(last.arg) : ~last.arg[i].makeRequired
    /\ \E name \in EntityNames(pre) :
           /\ IsArr(Get(EntityOf(pre, name), "required"))
           /\ Len(Get(EntityOf(pre, name), "required").arr) > 0
           /\ ~Has(EntityOf(doc, name), "required")

----------------------------------------------------------------------------
(* C8 *)

\* C8: no entity has a required key whose value is an empty array
C8_NoEmptyRequiredArray == NoEmptyRequired(doc)

----------------------------------------------------------------------------
(* C9 *)

\* C9: removeSchemaFields, renameSchemaFields and transformRequiredFields keep
\* every required array within the keys of the entity's properties
C9_RequiredNamesProperties ==
    (/\ last.op \in {"removeSchemaFields", "renameSchemaFields", "transformRequiredFields"}
     /\ RequiredWithinProperties(pre)) => RequiredWithinProperties(doc)

----------------------------------------------------------------------------
(* C1 *)

\* C1: the document saved by the second run of the pipeline, run with the
\* same configuration on the document the first run saved, is identical to
\* the document the first run saved
C1_SecondRunIdentical == Len(out) >= 2 => out[2] = out[1]

----------------------------------------------------------------------------
(* C2 *)

\* C2: in a run of the pipeline on an already processed document every stage
\* that runs returns a change count of zero
C2_SecondRunCountsZero ==
    (run >= 2 /\ last.op \notin {"skipped", "fetchSpec", "validate", "saveSpec"})
        => last.count = 0

----------------------------------------------------------------------------
(* C10 *)

\* the names in BIGINT_FIELDS
BigIntNames == { BIGINT_FIELDS[i].fieldName : i \in 1..Len(BIGINT_FIELDS) }

\* entity S of the fetched document has the integer property p, unmarked and
\* listed in required, and the rules hold the rename p -> q scoped to S
RenameCase(S, p, q) ==
    LET schema == Get(Schemas(source), S)
        propDef == Get(Get(schema, "properties"), p)
    IN /\ Get(propDef, "type") = Str("integer")
       /\ ~Has(propDef, "x-algokit-bigint")
       /\ Includes(Get(schema, "required"), p)
       /\ \E i \in 1..Len(cfg.schemaFieldRenames) :
              /\ cfg.schemaFieldRenames[i].schemaName = S
              /\ \E j \in 1..Len(cfg.schemaFieldRenames[i].fieldRenames) :
                     cfg.schemaFieldRenames[i].fieldRenames[j] = Rename(p, q)

\* the saved document: S has q and not p, q carries the marker, and required
\* lists q where the fetched document listed p
RenameOutcome(S, p, q) ==
    LET schema == Get(Schemas(doc), S)
        props == Get(schema, "properties")
        was == IndexOfStr(Get(Get(Schemas(source), S), "required"), p)
        required == Get(schema, "required")
    IN /\ Has(props, q)
       /\ ~Has(props, p)
       /\ Get(Get(props, q), "x-algokit-bigint") = Bool(TRUE)
       /\ IsArr(required)
       /\ was <= Len(required.arr)
       /\ required.arr[was] = Str(q)

\* the keys of S and of q that the claim is about
Guarded(p, q) == {"x-algokit-bigint", "properties", "required", p, q}

\* no other rule of the configuration reaches S, q or the marker
Undisturbed(S, p, q) ==
    LET c == FindConfig(cfg.schemaFieldRenames, S)
        renames == cfg.schemaFieldRenames[c].fieldRenames
        required == StrList(Get(Get(Schemas(source), S), "required"))
    IN /\ p # q
       /\ shouldMark(q, S)
       /\ \A i \in 1..Len(cfg.schemaRenames) :
              cfg.schemaRenames[i].from # S /\ cfg.schemaRenames[i].to # S
       /\ c # 0
       /\ \E j \in 1..Len(renames) :
              /\ renames[j] = Rename(p, q)
              /\ \A k \in (1..Len(renames)) \ {j} :
                     {renames[k].from, renames[k].to} \cap {p, q} = {}
       /\ \A i \in 1..Len(cfg.removeSchemaFields) :
              /\ cfg.removeSchemaFields[i] # q
              /\ \A k \in 1..Len(required) : Str(cfg.removeSchemaFields[i]) # required[k]
              /\ \A k \in 1..Len(renames) : cfg.removeSchemaFields[i] # renames[k].to
       /\ \A i \in 1..Len(cfg.requiredFieldTransforms) :
              cfg.requiredFieldTransforms[i].schemaName = S
                  => cfg.requiredFieldTransforms[i].makeRequired
       /\ \A i \in 1..Len(cfg.fieldTransforms) :
              /\ \A k \in 1..Len(cfg.fieldTransforms[i].removeItems) :
                     cfg.fieldTransforms[i].removeItems[k] \notin Guarded(p, q)
              /\ \A k \in 1..Len(cfg.fieldTransforms[i].addItems) :
                     cfg.fieldTransforms[i].addItems[k].k \notin Guarded(p, q)
       /\ \A i \in 1..Len(cfg.vendorExtensionTransforms) :
              LET t == cfg.vendorExtensionTransforms[i]
              IN /\ t.removeSource => t.sourceProperty \notin Guarded(p, q)
                 /\ t.targetProperty \in Guarded(p, q) =>
                        t.targetProperty = "x-algokit-bigint" /\ t.targetValue = Bool(TRUE)
       /\ \A i \in 1..Len(cfg.customSchemas) :
              \A k \in 1..Len(cfg.customSchemas[i].linkToProperties) :
                  cfg.customSchemas[i].linkToProperties[k] # q
       /\ \A i \in 1..Len(cfg.schemaVendorExtensions) :
              cfg.schemaVendorExtensions[i].schemaName = S
                  => cfg.schemaVendorExtensions[i].extension \notin Guarded(p, q)

\* the names of the properties of entity S
PropertyNames(spec, S) ==
    LET props == Get(Get(Schemas(spec), S), "properties")
    IN IF IsObj(props) THEN KeySet(props) ELSE {}

\* the entities, properties and bigint names the case ranges over
RenameCases ==
    { t \in SeqToSet(SchemaNames(source)) \X
            (UNION { PropertyNames(source, S) : S \in SeqToSet(SchemaNames(source)) }) \X
            BigIntNames :
        RenameCase(t[1], t[2], t[3]) }

\* C10 as stated: for an entity S with an unmarked integer property p listed
\* in required, every run whose rules hold the rename p -> q scoped to S, q a
\* bigint field name, saves a document where S has q and not p, q carries
\* x-algokit-bigint = true and required lists q where p was
C10_RenamedFieldMarked ==
    last.op = "saveSpec" => \A t \in RenameCases : RenameOutcome(t[1], t[2], t[3])

\* C10, amended: the same, for a run in which q is not excluded for S, the
\* rename p -> q stands in the first rename entry for S and is the only one
\* there naming p or q, and no other rule renames S, removes q or a required
\* field of S, makes a field of S optional, writes the marker (other than
\* true), p, q, the properties or the required list, or links q to a custom
\* entity
C10_UndisturbedRenamedFieldMarked ==
    last.op = "saveSpec" =>
        \A t \in RenameCases :
            Undisturbed(t[1], t[2], t[3]) => RenameOutcome(t[1], t[2], t[3])

\* a run saved the document of an undisturbed rename of a required field
C10_Witness ==
    /\ last.op = "saveSpec"
    /\ \E t \in RenameCases :
           /\ Undisturbed(t[1], t[2], t[3])
           /\ RenameOutcome(t[1], t[2], t[3])
           /\ IndexOfStr(Get(Get(Schemas(source), t[1]), "required"), t[2]) = 2

----------------------------------------------------------------------------
(* Nodes of a document, and the shapes of a field *)

\* the paths of the maps under n
RECURSIVE MapPaths(_, _)
MapPaths(n, path) ==
    IF ~IsObject(n) THEN {}
    ELSE (IF IsObj(n) THEN {path} ELSE {})
         \cup UNION {MapPaths(Child(n, i), Append(path, ChildKey(n, i))) :
                        i \in 1..NumChildren(n)}

\* a property named f, the declared parameter f, a map whose name is f
IsPropertyNamed(path, f) ==
    Len(path) >= 2 /\ path[Len(path) - 1] = "properties" /\ path[Len(path)] = f

IsDeclaredParameter(path, f) == path = <<"components", "parameters", f>>

IsNamed(n, f) == Get(n, "name") = Str(f)

FieldNodes(spec, f) ==
    {p \in MapPaths(spec, <<>>) :
        IsPropertyNamed(p, f) \/ IsDeclaredParameter(p, f) \/ IsNamed(AtPath(spec, p), f)}

RemovedKeys(t) == SeqToSet(t.removeItems)

AddedKeys(t) == {t.addItems[i].k : i \in 1..Len(t.addItems)}

\* the node after is the node before with the rule t applied to it once:
\* the items to remove are gone, the items to add are there, and the other
\* keys are those it had
AppliedTo(before, after, t) ==
    /\ IsObj(after)
    /\ \A i \in 1..Len(t.addItems) : Get(after, t.addItems[i].k) = t.addItems[i].v
    /\ KeySet(after) = (KeySet(before) \ RemovedKeys(t)) \cup AddedKeys(t)

\* the changes one application of t to the node counts
ChangesTo(before, t) ==
    Cardinality(RemovedKeys(t) \cap KeySet(before)) + Len(t.addItems)

RECURSIVE ChangesOver(_, _, _)
ChangesOver(spec, paths, t) ==
    IF paths = {} THEN 0
    ELSE LET p == CHOOSE p \in paths : TRUE
         IN ChangesTo(AtPath(spec, p), t) + ChangesOver(spec, paths \ {p}, t)

\* a single rule without owning entity, for a field name without a dot
IsPlainRule(arg) ==
    Len(arg) = 1 /\ arg[1].schemaName = "" /\ Len(Split(arg[1].fieldName, ".")) = 1

----------------------------------------------------------------------------
(* C11 *)

\* C11: one rule for the field f without owning entity is applied to every
\* property named f, to the declared parameter f and to every map whose name
\* is f, and to each of them once: the count of the pass is the sum, over
\* these nodes, of the changes one application makes
C11_RuleAppliedOncePerNode ==
    (last.op = "transformProperties" /\ IsPlainRule(last.arg)) =>
        /\ \A p \in FieldNodes(pre, last.arg[1].fieldName) :
               AppliedTo(AtPath(pre, p), AtPath(doc, p), last.arg[1])
        /\ last.count = ChangesOver(pre, FieldNodes(pre, last.arg[1].fieldName),
                                    last.arg[1])

\* the rule met the three shapes, one node being of two shapes at once
C11_Witness ==
    /\ last.op = "transformProperties"
    /\ IsPlainRule(last.arg)
    /\ last.count > 0
    /\ \E p \in FieldNodes(pre, last.arg[1].fieldName) :
           IsPropertyNamed(p, last.arg[1].fieldName)
    /\ \E p \in FieldNodes(pre, last.arg[1].fieldName) :
           /\ IsDeclaredParameter(p, last.arg[1].fieldName)
           /\ IsNamed(AtPath(pre, p), last.arg[1].fieldName)
           /\ AtPath(doc, p) # AtPath(pre, p)
    /\ \E p \in FieldNodes(pre, last.arg[1].fieldName) :
           /\ ~IsPropertyNamed(p, last.arg[1].fieldName)
           /\ ~IsDeclaredParameter(p, last.arg[1].fieldName)
           /\ AtPath(doc, p) # AtPath(pre, p)

----------------------------------------------------------------------------
(* C12 *)

\* the paths of the maps and arrays under n
RECURSIVE NodePaths(_, _)
NodePaths(n, path) ==
    IF ~IsObject(n) THEN {}
    ELSE {path} \cup UNION {NodePaths(Child(n, i), Append(path, ChildKey(n, i))) :
                               i \in 1..NumChildren(n)}

\* what a node is by itself: its keys in order, with the values that are
\* not nodes themselves
OwnPart(n) ==
    [i \in 1..NumChildren(n) |->
        [k |-> ChildKey(n, i),
         v |-> IF IsObject(Child(n, i)) THEN [node |-> TRUE] ELSE Child(n, i)]]

\* the node at path p is after the operation what it was before it
SameNode(p) ==
    /\ IsObject(AtPath(doc, p))
    /\ IsArr(AtPath(doc, p)) = IsArr(AtPath(pre, p))
    /\ OwnPart(AtPath(doc, p)) = OwnPart(AtPath(pre, p))

\* a single rule with an owning entity, for a field name without a dot
IsScopedRule(arg) ==
    Len(arg) = 1 /\ arg[1].schemaName # "" /\ Len(Split(arg[1].fieldName, ".")) = 1

ScopedPath(t) == <<"components", "schemas", t.schemaName, "properties", t.fieldName>>

\* C12 as stated: a rule with the owning entity S for the field f changes
\* the node components.schemas.S.properties.f and no other node
C12_OnlyScopedPropertyModified ==
    (last.op = "transformProperties" /\ IsScopedRule(last.arg)) =>
        \A p \in NodePaths(pre, <<>>) : p # ScopedPath(last.arg[1]) => SameNode(p)

\* C12: a rule with the owning entity S for the field f changes, of the
\* properties named f, none but components.schemas.S.properties.f, and
\* besides the properties it changes only the declared parameter f and the
\* maps whose name is f, which the owning entity does not bind
C12_ScopeBindsPropertiesOnly ==
    (last.op = "transformProperties" /\ IsScopedRule(last.arg)) =>
        \A p \in NodePaths(pre, <<>>) :
            (/\ p # ScopedPath(last.arg[1])
             /\ \/ IsPropertyNamed(p, last.arg[1].fieldName)
                \/ ~(\/ IsDeclaredParameter(p, last.arg[1].fieldName)
                     \/ IsNamed(AtPath(pre, p), last.arg[1].fieldName)))
                => SameNode(p)

\* the rule changed the property of its entity, left alone the property of
\* the same name of another entity, and changed a map whose name is f
C12_Witness ==
    /\ last.op = "transformProperties"
    /\ IsScopedRule(last.arg)
    /\ ~SameNode(ScopedPath(last.arg[1]))
    /\ \E p \in NodePaths(pre, <<>>) :
           /\ p # ScopedPath(last.arg[1])
           /\ IsPropertyNamed(p, last.arg[1].fieldName)
           /\ Has(AtPath(pre, p), last.arg[1].removeItems[1])
           /\ SameNode(p)
    /\ \E p \in NodePaths(pre, <<>>) :
           /\ ~IsPropertyNamed(p, last.arg[1].fieldName)
           /\ IsNamed(AtPath(pre, p), last.arg[1].fieldName)
           /\ ~SameNode(p)

----------------------------------------------------------------------------
(* C13 *)

\* what a node is by itself, the pointer string apart
OwnPartButRef(n) == SelectSeq(OwnPart(n), LAMBDA e : e.k # "$ref")

\* C13: updateAllRefs leaves every pointer whose target is not a key of the
\* rename map as it was, a pointer to no entity too, and changes nothing in
\* the document but pointer strings
C13_OtherPointersUntouched ==
    last.op = "updateAllRefs" =>
        /\ \A r \in Refs(pre) : r[2] \notin DOMAIN last.arg[1] => r \in Refs(doc)
        /\ NodePaths(doc, <<>>) = NodePaths(pre, <<>>)
        /\ \A p \in NodePaths(pre, <<>>) :
               OwnPartButRef(AtPath(doc, p)) = OwnPartButRef(AtPath(pre, p))

----------------------------------------------------------------------------
(* C14 *)

\* C14: a second call of updateAllRefs with the same map, on the document
\* the first call returned, changes no pointer and reports zero rewrites
C14_RewriteIdempotent ==
    last.op = "updateAllRefs" =>
        updateAllRefs(doc, last.arg[1]) = [spec |-> doc, count |-> 0]

----------------------------------------------------------------------------
(* C15 *)

\* the operations of the document the endpoints name
EnforcedOperations(spec, endpoints) ==
    {op \in UNION {{<<"paths", endpoints[i].path, MethodsOf(endpoints[i])[j]>> :
                       j \in 1..Len(MethodsOf(endpoints[i]))} : i \in 1..Len(endpoints)} :
        Truthy(AtPath(spec, op))}

\* where the request body and the declared responses of an operation stand,
\* a pointer followed once
BodiesOf(spec, op) ==
    (IF Truthy(Get(AtPath(spec, op), "requestBody"))
     THEN {TargetPath(spec, Append(op, "requestBody"))}
     ELSE {})
    \cup {TargetPath(spec, op \o <<"responses", code>>) :
             code \in SeqToSet(ResponseCodes(spec, op))}

EncodingTable(spec, at) == Get(AtPath(spec, at), "content")

----------------------------------------------------------------------------
(* C16 *)

\* where the parameters of an operation stand, a pointer followed once
ParametersOf(spec, op) ==
    {TargetPath(spec, op \o <<"parameters", ToString(i - 1)>>) :
        i \in 1..NumParameters(spec, op)}

IsFormatParameter(param) ==
    Get(param, "name") = Str("format") /\ Get(param, "in") = Str("query")

\* where the schema of the parameter standing at at stands: under its
\* schema key, or the parameter itself
SchemaOf(spec, at) ==
    IF Truthy(Get(AtPath(spec, at), "schema")) THEN Append(at, "schema") ELSE at

\* an enum with json or msgpack in it, or no enum and the type string
IsFormatSchema(schema) ==
    \/ /\ IsArr(Get(schema, "enum"))
       /\ Includes(Get(schema, "enum"), "json") \/ Includes(Get(schema, "enum"), "msgpack")
    \/ /\ ~Has(schema, "enum")
       /\ Get(schema, "type") = Str("string")

\* C16: after the enforcement of the encoding T for an operation every
\* query parameter of it named format, whether it had an enum with json or
\* msgpack in it or no enum and the type string, has the enum [T] and the
\* default T
C16_FormatParameterPinned ==
    last.op = "enforceEndpointFormat" =>
        \A op \in EnforcedOperations(pre, last.arg[1]) :
        \A at \in ParametersOf(pre, op) :
            (/\ IsFormatParameter(AtPath(pre, at))
             /\ IsFormatSchema(AtPath(pre, SchemaOf(pre, at))))
                => /\ Get(AtPath(doc, SchemaOf(pre, at)), "enum") = StrArr(<<last.arg[2]>>)
                   /\ Get(AtPath(doc, SchemaOf(pre, at)), "default") = Str(last.arg[2])

----------------------------------------------------------------------------
(* The order of process() *)

\* the positions of process(), in the order of the specification: entity
\* rename; field rename; field deletion with the prune; description and
\* compliance fixes; per-field annotations; required-field toggles; generic
\* field add/remove; vendor-extension rewrite; content-type enforcement;
\* entity injection and linking; vendor extensions on entities; tag edits;
\* then the validation and the writer
StageOrder ==
    <<"fetchSpec",
      "renameSchemas",
      "renameSchemaFields",
      "removeSchemaFields", "removeEmptySchemas",
      "fixMissingDescriptions", "fixPydanticRecursionError",
      "fixFieldNaming", "fixTealValueBytes", "fixBigInt", "fixFixedLengthByteFields",
      "makeAllFieldsRequired", "transformRequiredFields",
      "transformProperties",
      "transformVendorExtensions",
      "enforceMsgpack", "enforceJson",
      "createCustomSchema", "linkSchemaToProperties",
      "addSchemaVendorExtensions",
      "transformEndpointTags",
      "validate", "saveSpec">>

Position(at) == FirstIndex({i \in 1..Len(StageOrder) : StageOrder[i] = at})

\* is the stage at position i configured: the prune goes with the field
\* deletion, the linking with the entity injection, and the fixes, the
\* validation and the writer are not subject to the configuration
Configured(i) ==
    CASE StageOrder[i] = "renameSchemas" -> Len(cfg.schemaRenames) > 0
      [] StageOrder[i] = "renameSchemaFields" -> Len(cfg.schemaFieldRenames) > 0
      [] StageOrder[i] \in {"removeSchemaFields", "removeEmptySchemas"} ->
             Len(cfg.removeSchemaFields) > 0
      [] StageOrder[i] = "fixFixedLengthByteFields" -> Len(fixedByteFields) > 0
      [] StageOrder[i] = "makeAllFieldsRequired" -> cfg.makeAllFieldsRequired
      [] StageOrder[i] = "transformRequiredFields" -> Len(cfg.requiredFieldTransforms) > 0
      [] StageOrder[i] = "transformProperties" -> Len(cfg.fieldTransforms) > 0
      [] StageOrder[i] = "transformVendorExtensions" ->
             Len(cfg.vendorExtensionTransforms) > 0
      [] StageOrder[i] = "enforceMsgpack" -> Len(cfg.msgpackOnlyEndpoints) > 0
      [] StageOrder[i] = "enforceJson" -> Len(cfg.jsonOnlyEndpoints) > 0
      [] StageOrder[i] \in {"createCustomSchema", "linkSchemaToProperties"} ->
             Len(cfg.customSchemas) > 0
      [] StageOrder[i] = "addSchemaVendorExtensions" -> Len(cfg.schemaVendorExtensions) > 0
      [] StageOrder[i] = "transformEndpointTags" -> Len(cfg.endpointTagTransforms) > 0
      [] OTHER -> TRUE

\* a step of a run that did not throw: from a position to a later one, no
\* configured stage lying between the two; the stage of the position ran if
\* it is configured and did not run if it is not
InOrder ==
    /\ Position(pc') > Position(pc)
    /\ \A i \in (Position(pc) + 1)..(Position(pc') - 1) : ~Configured(i)
    /\ IF Configured(Position(pc)) THEN last'.op = pc
       ELSE last'.op = "skipped" /\ doc' = doc

----------------------------------------------------------------------------
(* C17 *)

----------------------------------------------------------------------------
(* C18 *)

----------------------------------------------------------------------------
(* C19: rules whose entity, field or operation does not exist *)

\* the field names of a rule that are properties of its entity
ExistingFields(spec, schemaName, names) ==
    SelectSeq(names, LAMBDA f :
        Truthy(GetIn(Schemas(spec), <<schemaName, "properties", f>>)))

\* the methods of a rule for which its path has an operation
ExistingMethods(spec, path, methods) ==
    SelectSeq(methods, LAMBDA m : Truthy(GetIn(spec, <<"paths", path, m>>)))

\* a list of rules without the references to what the document does not
\* have: the rules of missing entities and paths dropped, the missing
\* fields and methods dropped from the others
ExistingRules(op, spec, arg) ==
    CASE op = "transformRequiredFields" ->
           [i \in 1..Len(SelectSeq(arg, LAMBDA t : Has(Schemas(spec), t.schemaName))) |->
              LET t == SelectSeq(arg, LAMBDA u : Has(Schemas(spec), u.schemaName))[i]
              IN [t EXCEPT !.fieldName = ExistingFields(spec, t.schemaName, t.fieldName)]]
      [] op = "renameSchemaFields" ->
           [i \in 1..Len(SelectSeq(arg, LAMBDA t : Has(Schemas(spec), t.schemaName))) |->
              LET t == SelectSeq(arg, LAMBDA u : Has(Schemas(spec), u.schemaName))[i]
              IN [t EXCEPT !.fieldRenames =
                     SelectSeq(t.fieldRenames, LAMBDA r :
                         ExistingFields(spec, t.schemaName, <<r.from>>) # <<>>)]]
      [] op = "enforceEndpointFormat" ->
           <<[i \in 1..Len(SelectSeq(arg[1], LAMBDA e : Has(Get(spec, "paths"), e.path))) |->
                LET e == SelectSeq(arg[1], LAMBDA u : Has(Get(spec, "paths"), u.path))[i]
                IN [e EXCEPT !.methods =
                       <<ExistingMethods(spec, e.path, MethodsOf(e))>>]],
             arg[2]>>
      [] op = "transformEndpointTags" ->
           [i \in 1..Len(SelectSeq(arg, LAMBDA t : Has(Get(spec, "paths"), t.path))) |->
              LET t == SelectSeq(arg, LAMBDA u : Has(Get(spec, "paths"), u.path))[i]
              IN [t EXCEPT !.methods =
                     <<ExistingMethods(spec, t.path,
                                       IF t.methods = <<>> THEN HTTP_METHODS
                                       ELSE t.methods[1])>>]]

\* a list in which no rule is left with a field or an operation to act on
NothingExists(op, rules) ==
    CASE op = "transformRequiredFields" -> \A i \in 1..Len(rules) : rules[i].fieldName = <<>>
      [] op = "renameSchemaFields" -> \A i \in 1..Len(rules) : rules[i].fieldRenames = <<>>
      [] op = "enforceEndpointFormat" ->
           \A i \in 1..Len(rules[1]) : rules[1][i].methods = << <<>> >>
      [] op = "transformEndpointTags" -> \A i \in 1..Len(rules) : rules[i].methods = << <<>> >>

\* the operation as the implementation at hand runs it
RuleResult(op, spec, arg) ==
    CASE op = "transformRequiredFields" ->
           IF impl = "main" THEN transformRequiredFieldsMain(spec, arg)
           ELSE transformRequiredFields(spec, arg)
      [] op = "renameSchemaFields" ->
           IF impl = "main" THEN renameSchemaFieldsMain(spec, arg)
           ELSE renameSchemaFields(spec, arg)
      [] op = "enforceEndpointFormat" -> enforceEndpointFormat(spec, arg[1], arg[2])
      [] op = "transformEndpointTags" -> transformEndpointTags(spec, arg)

SkippingOperations ==
    {"transformRequiredFields", "renameSchemaFields", "enforceEndpointFormat",
     "transformEndpointTags"}

\* C19: a rule that names an entity, a field or an operation path the
\* document does not have leaves the document as it was and adds nothing to
\* the count, and the other rules of the list are applied as if it were not
\* there: the operation gives the document and the count it gives for the
\* list without the missing references, and gives the document back with
\* count zero when nothing a rule names exists.
C19_MissingTargetSkipped ==
    last.op \in SkippingOperations =>
        LET existing == ExistingRules(last.op, pre, last.arg)
        IN /\ [spec |-> doc, count |-> last.count] = RuleResult(last.op, pre, existing)
           /\ NothingExists(last.op, existing) => doc = pre /\ last.count = 0
----------------------------------------------------------------------------
(* C20: the calls of the visitor of deepTraverse *)

\* the calls the recording visitor was made with, in order
VisitLog == IF last.op = "deepTraverse" THEN last.count ELSE <<>>

ParentPath(path) == SubSeq(path, 1, Len(path) - 1)

\* two calls for children of one node, the i-th before the j-th
Siblings(log, i, j) ==
    /\ i < j
    /\ log[i].path # <<>> /\ log[j].path # <<>>
    /\ ParentPath(log[i].path) = ParentPath(log[j].path)

KeyPosition(o, k) == FirstIndex({p \in 1..Len(o.obj) : o.obj[p].k = k})

\* one call for every node under the root, no node twice
VisitedOnce(log) ==
    /\ \A i, j \in 1..Len(log) : log[i].path = log[j].path => i = j
    /\ {log[i].path : i \in 1..Len(log)} = NodePaths(doc, <<>>)

\* the call for a node comes after the call for its parent
ParentFirst(log) ==
    \A i \in 1..Len(log) :
        log[i].path # <<>> => \E j \in 1..(i - 1) : log[j].path = ParentPath(log[i].path)

\* each call is given the node at its path, the node above it and the key
\* or index under which that node holds it; the root has neither
PassedArguments(log) ==
    \A i \in 1..Len(log) :
        LET c == log[i]
        IN /\ c.obj = AtPath(doc, c.path)
           /\ c.path = <<>> => c.parent = Undef /\ c.key = Undef
           /\ c.path # <<>> =>
                 /\ c.parent = AtPath(doc, ParentPath(c.path))
                 /\ IF IsArr(c.parent)
                    THEN /\ DOMAIN c.key = {"num"}
                         /\ ToString(c.key.num) = c.path[Len(c.path)]
                         /\ c.parent.arr[c.key.num + 1] = c.obj
                    ELSE c.key = Str(c.path[Len(c.path)]) /\ Get(c.parent, c.key.str) = c.obj

\* the children of a sequence are visited by ascending index
SequenceOrder(log) ==
    \A i, j \in 1..Len(log) :
        Siblings(log, i, j) /\ IsArr(log[i].parent) => log[i].key.num < log[j].key.num

\* the children of a map are visited in the order its keys were created
CreationOrder(log) ==
    \A i, j \in 1..Len(log) :
        Siblings(log, i, j) /\ IsObj(log[i].parent) =>
            KeyPosition(log[i].parent, log[i].key.str)
                < KeyPosition(log[j].parent, log[j].key.str)

\* the children of a map under integer keys are visited first, by ascending
\* number, the others after them in the order their keys were created
EnumerationOrder(log) ==
    \A i, j \in 1..Len(log) :
        Siblings(log, i, j) /\ IsObj(log[i].parent) =>
            LET a == log[i].key.str
                b == log[j].key.str
            IN CASE IsIntegerIndex(a) /\ IsIntegerIndex(b) -> IntegerIndex[a] < IntegerIndex[b]
                 [] IsIntegerIndex(a) -> TRUE
                 [] IsIntegerIndex(b) -> FALSE
                 [] OTHER -> KeyPosition(log[i].parent, a) < KeyPosition(log[i].parent, b)

----------------------------------------------------------------------------
(* C21: the skip signal *)

SkipLog == IF last.op = "deepTraverseSkip" THEN last.count ELSE <<>>

\* the paths of the calls in which the visitor returned "skip"
SkippedPaths ==
    IF last.op # "deepTraverseSkip" THEN {}
    ELSE {SkipLog[i].path : i \in {j \in 1..Len(SkipLog) : SkipLog[j].key \in last.arg[1]}}

\* the path p leads through the node at s to a node below it
Below(s, p) == Len(s) < Len(p) /\ SubSeq(p, 1, Len(s)) = s

\* C21: when the visitor returns "skip" for a node, it is not called for any
\* node below that node, and it is called once for every other node of the
\* document, the later siblings of the node and the nodes below them
\* included.
C21_SkipPrunesSubtreeOnly ==
    last.op = "deepTraverseSkip" =>
        /\ doc = pre
        /\ \A i, j \in 1..Len(SkipLog) : SkipLog[i].path = SkipLog[j].path => i = j
        /\ {SkipLog[i].path : i \in 1..Len(SkipLog)}
             = {p \in NodePaths(doc, <<>>) : ~\E s \in SkippedPaths : Below(s, p)}

\* a traversal in which a node with nodes below it was skipped, and a later
\* sibling of it was visited together with a node below that sibling
C21_Witness ==
    /\ last.op = "deepTraverseSkip"
    /\ \E i, j, k \in 1..Len(SkipLog) :
          /\ SkipLog[i].path \in SkippedPaths
          /\ \E p \in NodePaths(doc, <<>>) : Below(SkipLog[i].path, p)
          /\ Siblings(SkipLog, i, j)
          /\ j < k /\ Below(SkipLog[j].path, SkipLog[k].path)
----------------------------------------------------------------------------
(* C22: runs started together *)

\* the document a stage of process() leaves, given the one it finds
AfterStage(at, spec, config) ==
    CASE at = "renameSchemas" /\ Len(config.schemaRenames) > 0 ->
           renameSchemas(spec, config.schemaRenames).spec
      [] at = "renameSchemaFields" /\ Len(config.schemaFieldRenames) > 0 ->
           renameSchemaFields(spec, config.schemaFieldRenames).spec
      [] at = "removeSchemaFields" /\ Len(config.removeSchemaFields) > 0 ->
           removeSchemaFields(spec, config.removeSchemaFields).spec
      [] at = "removeEmptySchemas" /\ Len(config.removeSchemaFields) > 0 ->
           removeEmptySchemas(spec).spec
      [] at = "fixMissingDescriptions" -> fixMissingDescriptions(spec).spec
      [] at = "fixPydanticRecursionError" -> fixPydanticRecursionError(spec).spec
      [] at = "fixFieldNaming" -> fixFieldNaming(spec).spec
      [] at = "fixTealValueBytes" -> fixTealValueBytes(spec).spec
      [] at = "fixBigInt" -> fixBigInt(spec).spec
      [] at = "fixFixedLengthByteFields" ->
           LET fields == IF config.fixedLengthByteFields = <<>> THEN FIXED_LENGTH_BYTE_FIELDS
                         ELSE config.fixedLengthByteFields[1]
           IN IF Len(fields) > 0 THEN fixFixedLengthByteFields(spec, fields).spec ELSE spec
      [] at = "makeAllFieldsRequired" /\ config.makeAllFieldsRequired ->
           makeAllFieldsRequired(spec).spec
      [] at = "transformRequiredFields" /\ Len(config.requiredFieldTransforms) > 0 ->
           transformRequiredFields(spec, config.requiredFieldTransforms).spec
      [] at = "transformProperties" /\ Len(config.fieldTransforms) > 0 ->
           transformProperties(spec, config.fieldTransforms).spec
      [] at = "transformVendorExtensions" /\ Len(config.vendorExtensionTransforms) > 0 ->
           transformVendorExtensions(spec, config.vendorExtensionTransforms).spec
      [] at = "enforceMsgpack" /\ Len(config.msgpackOnlyEndpoints) > 0 ->
           enforceEndpointFormat(spec, config.msgpackOnlyEndpoints, "msgpack").spec
      [] at = "enforceJson" /\ Len(config.jsonOnlyEndpoints) > 0 ->
           enforceEndpointFormat(spec, config.jsonOnlyEndpoints, "json").spec
      [] at = "createCustomSchema" /\ Len(config.customSchemas) > 0 ->
           createCustomSchemas(spec, config.customSchemas, 1, 0).spec
      [] at = "linkSchemaToProperties" /\ Len(config.customSchemas) > 0 ->
           linkSchemaToProperties(spec, config.customSchemas).spec
      [] at = "addSchemaVendorExtensions" /\ Len(config.schemaVendorExtensions) > 0 ->
           addSchemaVendorExtensions(spec, config.schemaVendorExtensions).spec
      [] at = "transformEndpointTags" /\ Len(config.endpointTagTransforms) > 0 ->
           transformEndpointTags(spec, config.endpointTagTransforms).spec
      [] OTHER -> spec

\* the document a run of process() by itself hands to the writer, from the
\* document it fetched
RECURSIVE RunFrom(_, _, _)
RunFrom(spec, config, i) ==
    IF i > Len(StageOrder) THEN spec
    ELSE LET next == AfterStage(StageOrder[i], spec, config)
         IN IF next = spec THEN RunFrom(spec, config, i + 1)
            ELSE RunFrom(next, config, i + 1)

RunAlone(spec, config) == RunFrom(spec, config, 2)

\* the runs, the executing one with the suspended ones
TaskStates ==
    [n \in DOMAIN tasks.parked \cup {tasks.current} |->
        IF n = tasks.current THEN [doc |-> doc, cfg |-> cfg, pc |-> pc, source |-> source]
        ELSE [doc |-> tasks.parked[n].doc, cfg |-> tasks.parked[n].cfg,
              pc |-> tasks.parked[n].pc, source |-> tasks.parked[n].source]]

Returned == {n \in DOMAIN TaskStates : TaskStates[n].pc = "done"}

----------------------------------------------------------------------------
(* C23: the vendor-extension rewrite applied again *)

\* C23: transformVendorExtensions applied a second time with the same rules
\* changes nothing and reports zero for every rule.
C23_VendorExtensionsIdempotent ==
    last.op = "transformVendorExtensions" =>
        LET again == transformVendorExtensions(doc, last.arg)
        IN /\ again.spec = doc
           /\ \A k \in DOMAIN again.counts : again.counts[k] = 0
----------------------------------------------------------------------------
(* C24: the number of entities across a rename *)

\* C24: renameSchemas loses no entity: the entity table has as many entries
\* after the rename as before.
C24_RenameKeepsEntityCount ==
    last.op = "renameSchemas" /\ IsObj(Schemas(pre)) =>
        /\ IsObj(Schemas(doc))
        /\ NumChildren(Schemas(doc)) = NumChildren(Schemas(pre))
----------------------------------------------------------------------------
(* C25: the field definitions across a field rename *)

PropertiesOf(spec, schemaName) == GetIn(Schemas(spec), <<schemaName, "properties">>)

\* the renames of the rules, each with the entity it is for, whose entity
\* has the property to be renamed
FieldRenamesApplying(spec, rules) ==
    UNION {{<<rules[i].schemaName, rules[i].fieldRenames[j]>> :
               j \in {k \in 1..Len(rules[i].fieldRenames) :
                          Has(PropertiesOf(spec, rules[i].schemaName),
                              rules[i].fieldRenames[k].from)}} :
           i \in 1..Len(rules)}

\* C25: renameSchemaFields loses no field definition: an entity that had the
\* property a rule renames has, after it, the property of the new name with
\* the definition the old one had, and as many properties as before.
C25_FieldRenameKeepsDefinition ==
    last.op = "renameSchemaFields" =>
        \A e \in FieldRenamesApplying(pre, last.arg) :
            /\ Has(PropertiesOf(doc, e[1]), e[2].to)
            /\ Get(PropertiesOf(doc, e[1]), e[2].to) = Get(PropertiesOf(pre, e[1]), e[2].from)
            /\ NumChildren(PropertiesOf(doc, e[1])) = NumChildren(PropertiesOf(pre, e[1]))
----------------------------------------------------------------------------
(* C26: the operations an enforcement does not name *)

\* the operations of the document that the endpoints do not name
OtherOperations(spec, endpoints) ==
    {<<"paths", pm[1], pm[2]>> : pm \in OperationSlots(spec)}
        \ EnforcedOperations(spec, endpoints)

\* C26: enforceEndpointFormat changes only the operations it names: every
\* other operation has, pointers followed, the same enum and default of its
\* format parameter and the same encoding tables of its request body and
\* responses as before.
C26_OtherOperationsUntouched ==
    last.op = "enforceEndpointFormat" =>
        \A op \in OtherOperations(pre, last.arg[1]) :
            /\ BodiesOf(doc, op) = BodiesOf(pre, op)
            /\ \A at \in BodiesOf(pre, op) : EncodingTable(doc, at) = EncodingTable(pre, at)
            /\ ParametersOf(doc, op) = ParametersOf(pre, op)
            /\ \A at \in ParametersOf(pre, op) :
                  IsFormatParameter(AtPath(pre, at)) =>
                      LET before == AtPath(pre, SchemaOf(pre, at))
                          after == AtPath(doc, SchemaOf(pre, at))
                      IN /\ Get(after, "enum") = Get(before, "enum")
                         /\ Get(after, "default") = Get(before, "default")
----------------------------------------------------------------------------
(* C27: the format parameter and the responses after both enforcements *)

\* where the responses of an operation stand, a pointer followed once
ResponsesOf(spec, op) ==
    {TargetPath(spec, op \o <<"responses", code>>) :
        code \in SeqToSet(ResponseCodes(spec, op))}

\* the endpoint list of the configuration for an encoding
EndpointsFor(config, format) ==
    IF format = "json" THEN config.jsonOnlyEndpoints ELSE config.msgpackOnlyEndpoints

\* the operations whose format parameter holds the single value format
\* among those the list of the encoding names
CollapsedTo(spec, config, format) ==
    {op \in EnforcedOperations(spec, EndpointsFor(config, format)) :
        \E at \in ParametersOf(spec, op) :
            /\ IsFormatParameter(AtPath(spec, at))
            /\ Get(AtPath(spec, SchemaOf(spec, at)), "enum") = StrArr(<<format>>)}

\* C27: after the msgpack-only and then the json-only enforcement of
\* process(), every response with a non-empty encoding table of an
\* operation whose format parameter was collapsed to T has the content
\* type of T in its table.
C27_ParameterMatchesResponses ==
    pc = "createCustomSchema" =>
        \A format \in {"msgpack", "json"} :
        \A op \in CollapsedTo(doc, cfg, format) :
        \A at \in ResponsesOf(doc, op) :
            NumChildren(EncodingTable(doc, at)) > 0
                => Has(EncodingTable(doc, at), ContentType(format))

\* C27 with the operations that both lists name left out
C27_OneListOnly ==
    pc = "createCustomSchema" =>
        \A format \in {"msgpack", "json"} :
        \A op \in CollapsedTo(doc, cfg, format)
                      \ EnforcedOperations(doc, EndpointsFor(cfg, OtherFormat(format))) :
        \A at \in ResponsesOf(doc, op) :
            NumChildren(EncodingTable(doc, at)) > 0
                => Has(EncodingTable(doc, at), ContentType(format))
----------------------------------------------------------------------------
(* extractInlineSchemas: the inline schemas of the shared responses and      *)
(* parameters of a Swagger 2 document are moved to its definitions            *)

\* the loop over Object.entries(spec[section]) from its i-th entry on: the
\* schema of an entry that has one without a pointer is stored in the
\* definitions under the name of the entry with the suffix, and a pointer
\* to it takes its place
RECURSIVE extractEntries(_, _, _, _, _)
extractEntries(r, section, suffix, order, i) ==
    IF i > Len(order) THEN r
    ELSE LET name == Get(r.spec, section).obj[order[i]].k
             entry == Get(r.spec, section).obj[order[i]].v
             schema == Get(entry, "schema")
         IN IF Truthy(schema) /\ ~Truthy(Get(schema, "$ref"))
            THEN LET schemaName == name \o suffix
                     stored == SetIn(r.spec, <<"definitions", schemaName>>, schema)
                     pointed == SetIn(stored, <<section, name, "schema">>,
                                      Obj(<<KV("$ref", Str("#/definitions/" \o schemaName))>>))
                 IN extractEntries([spec |-> pointed, count |-> r.count + 1],
                                   section, suffix, order, i + 1)
            ELSE extractEntries(r, section, suffix, order, i + 1)

\* the loop of a section, passed over when the document has no such section
extractSection(r, section, suffix) ==
    IF Truthy(Get(r.spec, section))
    THEN extractEntries(r, section, suffix, EntryOrder(Get(r.spec, section)), 1)
    ELSE r

extractInlineSchemas(spec) ==
    IF ~Truthy(Get(spec, "swagger")) THEN [spec |-> spec, count |-> 0]
    ELSE LET withDefinitions == IF Truthy(Get(spec, "definitions")) THEN spec
                                ELSE Set(spec, "definitions", EmptyObj)
             responses == extractSection([spec |-> withDefinitions, count |-> 0],
                                         "responses", "")
         IN extractSection(responses, "parameters", "Body")

\* Swagger 2 documents: the marker, the definitions, the shared responses
\* and the shared parameters
MessageSchema == Entity(<<KV("message", Typed("string"))>>, <<"message">>)

InlineErr == Entity(<<KV("msg", Typed("string")), KV("data", Typed("object"))>>, <<>>)

InlineAsset == Entity(<<KV("index", Typed("integer"))>>, <<"index">>)

DefinitionRef(name) == Obj(<<KV("$ref", Str("#/definitions/" \o name))>>)

Described(text, schema) ==
    Obj(<<KV("description", Str(text)), KV("schema", schema)>>)

BodyParameter(name, schema) ==
    Obj(<<KV("name", Str(name)), KV("in", Str("body")), KV("schema", schema)>>)

SwaggerDefinitions ==
    [none |-> <<>>,
     empty |-> <<KV("definitions", EmptyObj)>>,
     err |-> <<KV("definitions", Obj(<<KV("Err", MessageSchema)>>))>>,
     both |-> <<KV("definitions", Obj(<<KV("AssetBody", Typed("string")),
                                        KV("Err", MessageSchema)>>))>>]

SwaggerResponses ==
    [none |-> <<>>,
     inline |-> <<KV("responses", Obj(<<KV("Err", Described("an error", InlineErr))>>))>>,
     pointer |-> <<KV("responses",
                      Obj(<<KV("Err", Described("an error", DefinitionRef("Err")))>>))>>,
     several |-> <<KV("responses",
                      Obj(<<KV("Asset", Described("an asset", InlineAsset)),
                            KV("NoBody", Obj(<<KV("description", Str("nothing"))>>)),
                            KV("Err", Described("an error", InlineErr))>>))>>]

SwaggerParameters ==
    [none |-> <<>>,
     inline |-> <<KV("parameters",
                     Obj(<<KV("Asset", BodyParameter("asset", InlineAsset)),
                           KV("limit", Obj(<<KV("name", Str("limit")), KV("in", Str("query")),
                                             KV("type", Str("integer"))>>))>>))>>,
     pointer |-> <<KV("parameters",
                      Obj(<<KV("Asset", BodyParameter("asset", DefinitionRef("Err")))>>))>>]

SwaggerDoc(marker, definitions, responses, parameters) ==
    Obj(<<marker>> \o <<KV("paths", EmptyObj)>> \o SwaggerDefinitions[definitions]
        \o SwaggerResponses[responses] \o SwaggerParameters[parameters])

SwaggerDocs ==
    {SwaggerDoc(marker, definitions, responses, parameters) :
        marker \in {KV("swagger", Str("2.0")), KV("openapi", Str("3.0.0"))},
        definitions \in DOMAIN SwaggerDefinitions,
        responses \in DOMAIN SwaggerResponses,
        parameters \in DOMAIN SwaggerParameters}

ExtractInlineSchemas ==
    Applied("extractInlineSchemas", NoArg, extractInlineSchemas(doc))

InitSwagger ==
    /\ doc \in SwaggerDocs
    /\ impl \in {"config", "main"}
    /\ pre = doc
    /\ last = [op |-> "none", arg |-> NoArg, count |-> 0]
    /\ steps = 0
    /\ cfg = NoConfig
    /\ pc = "swagger"
    /\ run = 0
    /\ source = doc
    /\ out = <<>>
    /\ tasks = NoTasks
    /\ shared = {}
    /\ files = NoFiles

NextSwagger == ExtractInlineSchemas

Swagger == InitSwagger /\ [][NextSwagger]_vars

----------------------------------------------------------------------------
(* C28: the definitions a document had before the extraction *)

\* the entries of a section with a schema that is not a pointer
InlineEntries(spec, section) ==
    IF IsObj(Get(spec, section))
    THEN {e \in SeqToSet(Get(spec, section).obj) :
             Truthy(Get(e.v, "schema")) /\ ~Truthy(Get(Get(e.v, "schema"), "$ref"))}
    ELSE {}

\* the names the extraction stores a schema under
ExtractedNames(spec) ==
    {e.k : e \in InlineEntries(spec, "responses")}
        \cup {e.k \o "Body" : e \in InlineEntries(spec, "parameters")}

DefinitionNames(spec) ==
    IF Has(spec, "definitions") THEN KeySet(Get(spec, "definitions")) ELSE {}

\* C28: extractInlineSchemas keeps every definition the document had, each
\* with the content it had, and leaves a document without the swagger
\* marker as it was.
C28_DefinitionsKept ==
    last.op = "extractInlineSchemas" =>
        /\ \A name \in DefinitionNames(pre) :
               /\ Has(Get(doc, "definitions"), name)
               /\ Get(Get(doc, "definitions"), name) = Get(Get(pre, "definitions"), name)
        /\ ~Truthy(Get(pre, "swagger")) => doc = pre

\* C28 for the definitions whose name no extracted schema takes
C28_OtherDefinitionsKept ==
    last.op = "extractInlineSchemas" =>
        /\ \A name \in DefinitionNames(pre) \ ExtractedNames(pre) :
               /\ Has(Get(doc, "definitions"), name)
               /\ Get(Get(doc, "definitions"), name) = Get(Get(pre, "definitions"), name)
        /\ ~Truthy(Get(pre, "swagger")) => doc = pre

----------------------------------------------------------------------------
(* C29: the rule configuration during a run *)

\* C29: no step of process() changes the rule configuration: the custom
\* schemas of customSchemas and every other rule are after the step what
\* they were before it.
C29_ConfigurationUnchanged == [][cfg' = cfg]_vars

\* C29 for the runs in which no stage after createCustomSchema writes into
\* an entity that createCustomSchema stored
C29_UntouchedEntitiesUnchanged ==
    [][(\A i \in shared' :
            Get(Schemas(doc'), cfg.customSchemas[i].name) = cfg.customSchemas[i].schema)
        => cfg' = cfg]_vars

----------------------------------------------------------------------------
(* C30: the required arrays at the end of process() *)

\* the names the required array of the entity S lists, none without one
RequiredNames(spec, S) ==
    LET required == Get(Get(Schemas(spec), S), "required")
    IN IF IsArr(required) THEN {required.arr[i].str : i \in 1..Len(required.arr)} ELSE {}

\* the fields a rule with makeRequired false names for the entity S
ToggledOptional(config, S) ==
    UNION {SeqToSet(config.requiredFieldTransforms[i].fieldName) :
              i \in {j \in 1..Len(config.requiredFieldTransforms) :
                        /\ config.requiredFieldTransforms[j].schemaName = S
                        /\ ~config.requiredFieldTransforms[j].makeRequired}}

AllRequiredWithToggles ==
    /\ pc = "validate"
    /\ cfg.makeAllFieldsRequired
    /\ Len(cfg.requiredFieldTransforms) > 0

RulesNaming(config, S, f) ==
    {j \in 1..Len(config.requiredFieldTransforms) :
        /\ config.requiredFieldTransforms[j].schemaName = S
        /\ f \in SeqToSet(config.requiredFieldTransforms[j].fieldName)}

\* the fields of the entity S whose last rule has makeRequired false
FinallyOptional(config, S) ==
    {f \in ToggledOptional(config, S) :
        LET j == CHOOSE k \in RulesNaming(config, S, f) :
                     \A m \in RulesNaming(config, S, f) : m <= k
        IN ~config.requiredFieldTransforms[j].makeRequired}

\* the entities createCustomSchema stored in this run
CreatedNames == {cfg.customSchemas[i].name : i \in shared}

====
